---- MODULE Spec2Model ----
(***************************************************************************)
(* Model of the GameClient class of src/game.js: the connection manager    *)
(* (connectToServer / attemptReconnect), the world synchroniser            *)
(* (handleServerMessage and its handlers, the camera) and the input        *)
(* listeners (click, keydown, keyup, blur).                                *)
(*                                                                         *)
(* Every event of the single-threaded event loop is one action.  An action *)
(* runs the whole listener: the calls it makes (checkAndCenterCamera,      *)
(* centerCameraOnPlayer, preloadAvatar, attemptReconnect, ...) are part of *)
(* the same step.                                                          *)
(*                                                                         *)
(* The two clients of src/script.js and the client of src/main.js follow   *)
(* the model of game.js, each with its own actions and specification; a    *)
(* specification runs one client, and the variables hold that client's     *)
(* state.                                                                  *)
(***************************************************************************)
EXTENDS Integers, Sequences, FiniteSets, TLC

(***************************************************************************)
(* Program constants.                                                      *)
(***************************************************************************)
worldWidth == 2048
worldHeight == 2048
maxReconnectAttempts == 5
reconnectBaseDelay == 2000

\* JavaScript null / a property that is not set.
NULL == "null"

(***************************************************************************)
(* Input domains of the events.                                            *)
(***************************************************************************)
Ids == {"p1", "p2"}
Xs == {100, 2040}
Ys == {10, 1500}
Facings == {"south", "west"}
\* The fields a players_moved update may carry; an actor also has its id.
Fields == {"x", "y", "facing"}
\* window.innerWidth x window.innerHeight: an even and an odd size inside the
\* world, one wider than the world, one larger on both axes.
Viewports == {<<800, 600>>, <<801, 601>>, <<3000, 600>>, <<3000, 2500>>}

\* A partial update of one actor: any subset of the fields, with any values.
PartialUpdates ==
    {[f \in S |-> a[f]] : a \in [x : Xs, y : Ys, facing : Facings],
                          S \in SUBSET Fields}

\* A map from some ids to values of V (a JavaScript object used as a table).
Tables(K, V) == UNION {[S -> V] : S \in SUBSET K}

EmptyTable == [k \in {} |-> NULL]

Max(a, b) == IF a >= b THEN a ELSE b
Min(a, b) == IF a <= b THEN a ELSE b

VARIABLES
    playerId,           \* this.playerId: NULL or an id
    players,            \* this.players: id -> actor record
    avatars,            \* this.avatars: name -> avatar definition
    myPlayer,           \* this.myPlayer: which object the reference points to
    camera,             \* this.camera: [x, y, width, height]
    ws,                 \* readyState of the socket this.ws refers to, or NULL
    reconnectAttempts,  \* this.reconnectAttempts
    timers,             \* delays of the pending setTimeout(connectToServer) calls
    needsRedraw,        \* this.needsRedraw
    worldImageLoaded,   \* this.worldImageLoaded
    playerDataReceived, \* this.playerDataReceived
    held,               \* keys the keyboard currently holds down
    closes,             \* ws.onclose events since the last ws.onopen
    throws,             \* failed WebSocket constructions since the last ws.onopen
    lost,               \* closes + throws that preceded the last ws.onopen
    canvas,             \* the sprites the last draw() put on the canvas
    keysPressed,        \* script.js: keysPressed, the keys the client tracks
    isMoving,           \* script.js, first client: gameState.isMoving
    told,               \* script.js: the last move or stop put on the socket
    myPos,              \* main.js: myPos, the local position [x, y]
    last                \* the event handled last and what it did

vars == <<playerId, players, avatars, myPlayer, camera, ws, reconnectAttempts,
          timers, needsRedraw, worldImageLoaded, playerDataReceived, held,
          closes, throws, lost, canvas, keysPressed, isMoving, told, myPos,
          last>>

syncVars == <<playerId, players, avatars, myPlayer, camera, needsRedraw,
              worldImageLoaded, playerDataReceived>>
connVars == <<ws, reconnectAttempts, timers, closes, throws, lost>>
\* The state only the clients of script.js and main.js have.
otherVars == <<keysPressed, isMoving, told, myPos>>

(***************************************************************************)
(* Avatar definitions the server sends.  frames maps a facing to the       *)
(* ordered data URLs of its frames; the sequences differ in length.        *)
(***************************************************************************)
AvEast == [name |-> "a1", frames |-> [east |-> <<"e0", "e1">>]]
AvEastAlt == [name |-> "a1", frames |-> [east |-> <<"e9">>]]
AvFull == [name |-> "a2",
           frames |-> [south |-> <<"s0">>, west |-> <<"w0", "w1">>]]

\* The object this.myPlayer refers to.  kind = "entry": the very object
\* stored at players[playerId]; kind = "stale": an object that is no longer
\* in the table (deleted or overwritten there) and is kept alive by the
\* reference alone, its fields in obj; kind = "null": null.
NoPlayer == [kind |-> "null", obj |-> EmptyTable]
EntryPlayer == [kind |-> "entry", obj |-> EmptyTable]
StalePlayer(o) == [kind |-> "stale", obj |-> o]

\* What the last event did: its name, whether centerCameraOnPlayer computed
\* a camera position, the console.error it printed, the messages it sent;
\* repeat is event.repeat of a keydown (the key was already down).
Ev(op, centered, error, sent) ==
    [op |-> op, centered |-> centered, error |-> error, sent |-> sent,
     repeat |-> FALSE]

(***************************************************************************)
(* Pure helpers.                                                           *)
(***************************************************************************)
\* Object.assign that replaces the target by the source.
AssignReplacing(target, source) == source

\* Object.assign(target, source), target a fresh copy here.
Assign(target, source) ==
    [f \in DOMAIN target \cup DOMAIN source |->
        IF f \in DOMAIN source THEN source[f] ELSE target[f]]

\* The fields of the object this.myPlayer points to (myPlayer non-null).
Deref(mp, tbl, pid) == IF mp.kind = "entry" THEN tbl[pid] ELSE mp.obj

\* Math.round of v2/2 for an integer v2 (halves round up).
RoundHalf(v2) == (v2 + 1) \div 2

\* ClampAxis without the Math.max(0, ...) floor.
ClampAxisNoFloor(pos, size, world) ==
    RoundHalf(Min(2 * pos - size, 2 * (world - size)))

\* Math.max(0, Math.min(ideal, limit)) then Math.round, with ideal and limit
\* given doubled so that width/2 stays an integer.
ClampAxis(pos, size, world) ==
    RoundHalf(Max(0, Min(2 * pos - size, 2 * (world - size))))

\* centerCameraOnPlayer with this.myPlayer = player (non-null).
centerCameraOnPlayer(cam, player) ==
    [cam EXCEPT !.x = ClampAxis(player.x, cam.width, worldWidth),
                !.y = ClampAxis(player.y, cam.height, worldHeight)]

\* checkAndCenterCamera with the playerDataReceived test negated.
checkAndCenterCameraNoRetry(loaded, received, mp) ==
    loaded /\ ~received /\ mp.kind # "null"

\* The condition of checkAndCenterCamera, mp being this.myPlayer.
checkAndCenterCamera(loaded, received, mp) ==
    loaded /\ received /\ mp.kind # "null"

\* preloadAvatar: one new Image per frame, kept by facing; an Image is
\* complete only once the browser has loaded its src.
preloadAvatar(avatar) ==
    [name |-> avatar.name,
     frames |-> avatar.frames,
     loadedImagesByDir |->
        [d \in DOMAIN avatar.frames |->
            [i \in 1..Len(avatar.frames[d]) |->
                [src |-> avatar.frames[d][i], complete |-> FALSE]]]]

\* preloadAvatars over a whole table.
preloadAvatars(tbl) == [n \in DOMAIN tbl |-> preloadAvatar(tbl[n])]

(***************************************************************************)
(* Inbound messages (JSON.parse of event.data).                            *)
(***************************************************************************)
JoinOk(pid, tbl, avs) ==
    [action |-> "join_game", success |-> TRUE, playerId |-> pid,
     players |-> tbl, avatars |-> avs]
\* A rejection; the server may still fill the other fields of the reply.
JoinRejected(pid, tbl, avs) ==
    [action |-> "join_game", success |-> FALSE, error |-> "rejected",
     playerId |-> pid, players |-> tbl, avatars |-> avs]
PlayerJoinedMsg(p, av) == [action |-> "player_joined", player |-> p, avatar |-> av]
PlayersMovedMsg(upd) == [action |-> "players_moved", players |-> upd]
PlayerLeftMsg(pid) == [action |-> "player_left", playerId |-> pid]
UnknownMsg == [action |-> "chat"]
\* A parsed message with no action field at all.
NoActionMsg == [type |-> "chat"]
\* Messages of the wrong shape: player_joined without avatar, player_joined
\* without player, players_moved without players.
PlayerJoinedNoAvatar(p) == [action |-> "player_joined", player |-> p]
PlayerJoinedNoPlayer(av) == [action |-> "player_joined", avatar |-> av]
PlayersMovedNoPlayers == [action |-> "players_moved"]

\* What the catch of ws.onmessage prints for an exception of JSON.parse or
\* of a handler; it undoes nothing.
ParseError == "Error parsing server message"

(***************************************************************************)
(* World synchroniser: the handlers behind handleServerMessage.            *)
(***************************************************************************)
\* handleJoinGameSuccess that keeps a playerId it already has.
handleJoinGameSuccessKeepingId(message) ==
    LET pid == IF playerId = NULL THEN message.playerId ELSE playerId
        mp == IF pid \in DOMAIN message.players THEN EntryPlayer ELSE NoPlayer
        center == checkAndCenterCamera(worldImageLoaded, TRUE, mp)
    IN  /\ playerId' = pid
        /\ players' = message.players
        /\ avatars' = preloadAvatars(message.avatars)
        /\ myPlayer' = mp
        /\ playerDataReceived' = TRUE
        /\ camera' = IF center
                     THEN centerCameraOnPlayer(camera, message.players[pid])
                     ELSE camera
        /\ needsRedraw' = TRUE
        /\ last' = Ev("join_game", center, "none", <<>>)
        /\ UNCHANGED worldImageLoaded

\* handleJoinGameSuccess that adds the snapshot to the tables it has.
handleJoinGameSuccessMerging(message) ==
    LET tbl == [k \in DOMAIN players \cup DOMAIN message.players |->
                  IF k \in DOMAIN message.players
                  THEN message.players[k]
                  ELSE players[k]]
        avs == [n \in DOMAIN avatars \cup DOMAIN message.avatars |->
                  IF n \in DOMAIN message.avatars
                  THEN preloadAvatar(message.avatars[n])
                  ELSE avatars[n]]
        mp == IF message.playerId \in DOMAIN tbl THEN EntryPlayer ELSE NoPlayer
        center == checkAndCenterCamera(worldImageLoaded, TRUE, mp)
    IN  /\ playerId' = message.playerId
        /\ players' = tbl
        /\ avatars' = avs
        /\ myPlayer' = mp
        /\ playerDataReceived' = TRUE
        /\ camera' = IF center
                     THEN centerCameraOnPlayer(camera, tbl[message.playerId])
                     ELSE camera
        /\ needsRedraw' = TRUE
        /\ last' = Ev("join_game", center, "none", <<>>)
        /\ UNCHANGED worldImageLoaded

handleJoinGameSuccess(message) ==
    LET mp == IF message.playerId \in DOMAIN message.players
              THEN EntryPlayer
              ELSE NoPlayer
        center == checkAndCenterCamera(worldImageLoaded, TRUE, mp)
    IN  /\ playerId' = message.playerId
        /\ players' = message.players
        /\ avatars' = preloadAvatars(message.avatars)
        /\ myPlayer' = mp
        /\ playerDataReceived' = TRUE
        /\ camera' = IF center
                     THEN centerCameraOnPlayer(camera,
                                               message.players[message.playerId])
                     ELSE camera
        /\ needsRedraw' = TRUE
        /\ last' = Ev("join_game", center, "none", <<>>)
        /\ UNCHANGED worldImageLoaded

\* handlePlayerJoined that keeps an asset set it already has under the name.
handlePlayerJoinedKeepingAvatar(message) ==
    LET id == message.player.id
        overwritesMine == myPlayer.kind = "entry" /\ id = playerId
    IN  /\ players' = [k \in DOMAIN players \cup {id} |->
                          IF k = id THEN message.player ELSE players[k]]
        /\ myPlayer' = IF overwritesMine
                       THEN StalePlayer(players[playerId])
                       ELSE myPlayer
        /\ avatars' = [n \in DOMAIN avatars \cup {message.avatar.name} |->
                          IF n \in DOMAIN avatars
                          THEN avatars[n]
                          ELSE preloadAvatar(message.avatar)]
        /\ needsRedraw' = TRUE
        /\ last' = Ev("player_joined", FALSE, "none", <<>>)
        /\ UNCHANGED <<playerId, camera, worldImageLoaded, playerDataReceived>>

\* handlePlayerJoined that starts the avatars table over with the new set.
handlePlayerJoinedResettingAvatars(message) ==
    LET id == message.player.id
        overwritesMine == myPlayer.kind = "entry" /\ id = playerId
    IN  /\ players' = [k \in DOMAIN players \cup {id} |->
                          IF k = id THEN message.player ELSE players[k]]
        /\ myPlayer' = IF overwritesMine
                       THEN StalePlayer(players[playerId])
                       ELSE myPlayer
        /\ avatars' = [n \in {message.avatar.name} |->
                          preloadAvatar(message.avatar)]
        /\ needsRedraw' = TRUE
        /\ last' = Ev("player_joined", FALSE, "none", <<>>)
        /\ UNCHANGED <<playerId, camera, worldImageLoaded, playerDataReceived>>

\* message.player.id throws when player is missing, before any assignment;
\* message.avatar.name throws when avatar is missing, after the assignment to
\* this.players and before the rest.
handlePlayerJoined(message) ==
    IF "player" \notin DOMAIN message
    THEN /\ last' = Ev("player_joined", FALSE, ParseError, <<>>)
         /\ UNCHANGED syncVars
    ELSE LET id == message.player.id
             overwritesMine == myPlayer.kind = "entry" /\ id = playerId
         IN  /\ players' = [k \in DOMAIN players \cup {id} |->
                               IF k = id THEN message.player ELSE players[k]]
             /\ myPlayer' = IF overwritesMine
                            THEN StalePlayer(players[playerId])
                            ELSE myPlayer
             /\ IF "avatar" \in DOMAIN message
                THEN /\ avatars' =
                           [n \in DOMAIN avatars \cup {message.avatar.name} |->
                               IF n = message.avatar.name
                               THEN preloadAvatar(message.avatar)
                               ELSE avatars[n]]
                     /\ needsRedraw' = TRUE
                     /\ last' = Ev("player_joined", FALSE, "none", <<>>)
                ELSE /\ last' = Ev("player_joined", FALSE, ParseError, <<>>)
                     /\ UNCHANGED <<avatars, needsRedraw>>
             /\ UNCHANGED <<playerId, camera, worldImageLoaded,
                            playerDataReceived>>

\* handlePlayersMoved that centres the camera on every players_moved message,
\* whether or not it carries playerId.
handlePlayersMovedAlwaysCentering(message) ==
    IF "players" \notin DOMAIN message
    THEN /\ last' = Ev("players_moved", FALSE, ParseError, <<>>)
         /\ UNCHANGED syncVars
    ELSE
    LET upd == message.players
        merged == [pid \in DOMAIN players |->
                      IF pid \in DOMAIN upd
                      THEN Assign(players[pid], upd[pid])
                      ELSE players[pid]]
        mine == myPlayer.kind # "null" /\ playerId \in DOMAIN upd
        tbl == IF mine /\ myPlayer.kind = "entry"
               THEN [merged EXCEPT ![playerId] = Assign(@, upd[playerId])]
               ELSE merged
        mp == IF mine /\ myPlayer.kind = "stale"
              THEN StalePlayer(Assign(myPlayer.obj, upd[playerId]))
              ELSE myPlayer
    IN  /\ players' = tbl
        /\ myPlayer' = mp
        /\ camera' = IF myPlayer.kind # "null"
                     THEN centerCameraOnPlayer(camera, Deref(mp, tbl, playerId))
                     ELSE camera
        /\ needsRedraw' = TRUE
        /\ last' = Ev("players_moved", mine, "none", <<>>)
        /\ UNCHANGED <<playerId, avatars, worldImageLoaded, playerDataReceived>>

\* Object.keys(message.players) throws when players is missing, before any
\* assignment.
handlePlayersMoved(message) ==
    IF "players" \notin DOMAIN message
    THEN /\ last' = Ev("players_moved", FALSE, ParseError, <<>>)
         /\ UNCHANGED syncVars
    ELSE
    LET upd == message.players
        merged == [pid \in DOMAIN players |->
                      IF pid \in DOMAIN upd
                      THEN Assign(players[pid], upd[pid])
                      ELSE players[pid]]
        mine == myPlayer.kind # "null" /\ playerId \in DOMAIN upd
        tbl == IF mine /\ myPlayer.kind = "entry"
               THEN [merged EXCEPT ![playerId] = Assign(@, upd[playerId])]
               ELSE merged
        mp == IF mine /\ myPlayer.kind = "stale"
              THEN StalePlayer(Assign(myPlayer.obj, upd[playerId]))
              ELSE myPlayer
    IN  /\ players' = tbl
        /\ myPlayer' = mp
        /\ camera' = IF mine
                     THEN centerCameraOnPlayer(camera, Deref(mp, tbl, playerId))
                     ELSE camera
        /\ needsRedraw' = TRUE
        /\ last' = Ev("players_moved", mine, "none", <<>>)
        /\ UNCHANGED <<playerId, avatars, worldImageLoaded, playerDataReceived>>

handlePlayerLeft(message) ==
    LET deletesMine == myPlayer.kind = "entry" /\ message.playerId = playerId
    IN  /\ players' = [k \in DOMAIN players \ {message.playerId} |-> players[k]]
        /\ myPlayer' = IF deletesMine
                       THEN StalePlayer(players[playerId])
                       ELSE myPlayer
        /\ needsRedraw' = TRUE
        /\ last' = Ev("player_left", FALSE, "none", <<>>)
        /\ UNCHANGED <<playerId, avatars, camera, worldImageLoaded,
                       playerDataReceived>>

\* The else branch of case "join_game": console.error only.
joinGameFailed(message) ==
    /\ last' = Ev("join_game", FALSE, "Join game failed", <<>>)
    /\ UNCHANGED syncVars

\* The default branch emptying the players table.
unknownActionClearingPlayers(message) ==
    /\ players' = EmptyTable
    /\ myPlayer' = NoPlayer
    /\ last' = Ev("unknown", FALSE, "none", <<>>)
    /\ UNCHANGED <<playerId, avatars, camera, needsRedraw, worldImageLoaded,
                   playerDataReceived>>

\* The default branch: nothing.
unknownAction(message) ==
    /\ last' = Ev("unknown", FALSE, "none", <<>>)
    /\ UNCHANGED syncVars

\* message.action, undefined when the message has no such field.
ActionOf(message) ==
    IF "action" \in DOMAIN message THEN message.action ELSE "undefined"

\* handleServerMessage that does not test message.success.
handleServerMessageNoSuccessTest(message) ==
    CASE ActionOf(message) = "join_game" -> handleJoinGameSuccess(message)
      [] ActionOf(message) = "player_joined" -> handlePlayerJoined(message)
      [] ActionOf(message) = "players_moved" -> handlePlayersMoved(message)
      [] ActionOf(message) = "player_left" -> handlePlayerLeft(message)
      [] OTHER -> unknownAction(message)

handleServerMessage(message) ==
    CASE ActionOf(message) = "join_game" ->
            IF message.success
            THEN handleJoinGameSuccess(message)
            ELSE joinGameFailed(message)
      [] ActionOf(message) = "player_joined" -> handlePlayerJoined(message)
      [] ActionOf(message) = "players_moved" -> handlePlayersMoved(message)
      [] ActionOf(message) = "player_left" -> handlePlayerLeft(message)
      [] OTHER -> unknownAction(message)

\* ws.onmessage on the open socket.
OnMessage(message) ==
    /\ ws = "OPEN"
    /\ handleServerMessage(message)
    /\ UNCHANGED <<connVars, held, canvas, otherVars>>

\* ws.onmessage with event.data that JSON.parse rejects.
OnUnparsableMessage ==
    /\ ws = "OPEN"
    /\ last' = Ev("message", FALSE, ParseError, <<>>)
    /\ UNCHANGED <<syncVars, connVars, held, canvas, otherVars>>

(***************************************************************************)
(* Window and image events.                                                *)
(***************************************************************************)
\* The resize listener of setupCanvas.
OnResize(size) ==
    LET cam == [camera EXCEPT !.width = size[1], !.height = size[2]]
        center == myPlayer.kind # "null"
    IN  /\ camera' = IF center
                     THEN centerCameraOnPlayer(cam,
                                               Deref(myPlayer, players, playerId))
                     ELSE cam
        /\ needsRedraw' = TRUE
        /\ last' = Ev("resize", center, "none", <<>>)
        /\ UNCHANGED <<playerId, players, avatars, myPlayer, worldImageLoaded,
                       playerDataReceived, connVars, held, canvas, otherVars>>

\* worldImage.onload of loadWorldMap, with checkAndCenterCamera.
OnWorldImageLoad ==
    LET center == checkAndCenterCamera(TRUE, playerDataReceived, myPlayer)
    IN  /\ ~worldImageLoaded
        /\ worldImageLoaded' = TRUE
        /\ camera' = IF center
                     THEN centerCameraOnPlayer(camera,
                                               Deref(myPlayer, players, playerId))
                     ELSE camera
        /\ needsRedraw' = TRUE
        /\ last' = Ev("world_image_load", center, "none", <<>>)
        /\ UNCHANGED <<playerId, players, avatars, myPlayer,
                       playerDataReceived, connVars, held, canvas, otherVars>>

(***************************************************************************)
(* Rendering.                                                              *)
(***************************************************************************)
\* The browser finishes loading the Image of frame i (from 1) of facing d of
\* the asset set n; no handler is attached to it.
OnImageLoad(n, d, i) ==
    /\ n \in DOMAIN avatars
    /\ d \in DOMAIN avatars[n].loadedImagesByDir
    /\ i \in 1..Len(avatars[n].loadedImagesByDir[d])
    /\ ~avatars[n].loadedImagesByDir[d][i].complete
    /\ avatars' = [avatars EXCEPT
                      ![n].loadedImagesByDir[d][i].complete = TRUE]
    /\ last' = Ev("image_load", FALSE, "none", <<>>)
    /\ UNCHANGED <<playerId, players, myPlayer, camera, needsRedraw,
                   worldImageLoaded, playerDataReceived, connVars, held,
                   canvas, otherVars>>

\* player.facing || "south" and player.animationFrame || 0.
Facing(player) ==
    IF "facing" \in DOMAIN player THEN player.facing ELSE "south"
FrameIdx(player) ==
    IF "animationFrame" \in DOMAIN player THEN player.animationFrame ELSE 0

\* !frames || frames.length === 0 for frames = imgs[dir].
NoFrames(imgs, dir) == dir \notin DOMAIN imgs \/ Len(imgs[dir]) = 0

\* resolveFrames without Math.min: the index is animationFrame as it comes.
resolveFramesNoClamp(avatar, player) ==
    LET imgs == avatar.loadedImagesByDir
        dir == Facing(player)
        flipX == NoFrames(imgs, dir) /\ dir = "west"
        from == IF flipX THEN "east" ELSE dir
    IN  IF NoFrames(imgs, from)
        THEN [found |-> FALSE]
        ELSE [found |-> TRUE, dir |-> from, flipX |-> flipX,
              index |-> FrameIdx(player)]

\* resolveFrames without the fallback from west to east.
resolveFramesNoFallback(avatar, player) ==
    LET imgs == avatar.loadedImagesByDir
        dir == Facing(player)
    IN  IF NoFrames(imgs, dir)
        THEN [found |-> FALSE]
        ELSE [found |-> TRUE, dir |-> dir, flipX |-> FALSE,
              index |-> Min(FrameIdx(player), Len(imgs[dir]) - 1)]

\* The frame choice of drawPlayer: the sequence it takes the image from,
\* whether it mirrors it, and the index (from 0) into the sequence.
resolveFrames(avatar, player) ==
    LET imgs == avatar.loadedImagesByDir
        dir == Facing(player)
        flipX == NoFrames(imgs, dir) /\ dir = "west"
        from == IF flipX THEN "east" ELSE dir
    IN  IF NoFrames(imgs, from)
        THEN [found |-> FALSE]
        ELSE [found |-> TRUE, dir |-> from, flipX |-> flipX,
              index |-> Min(FrameIdx(player), Len(imgs[from]) - 1)]

\* drawPlayer: the sprites (none or one) it draws for player.
drawPlayer(player) ==
    LET screenX == player.x - camera.x
        screenY == player.y - camera.y
        culled == \/ screenX < -64 \/ screenX > camera.width + 64
                  \/ screenY < -64 \/ screenY > camera.height + 64
        known == "avatar" \in DOMAIN player /\ player.avatar \in DOMAIN avatars
        r == resolveFrames(avatars[player.avatar], player)
        img == avatars[player.avatar].loadedImagesByDir[r.dir][r.index + 1]
    IN  IF culled \/ ~known THEN {}
        ELSE IF ~r.found THEN {}
        ELSE IF r.index < 0 \/ ~img.complete THEN {}
        ELSE {[id |-> player.id, avatar |-> player.avatar,
               facing |-> Facing(player), animationFrame |-> FrameIdx(player),
               dir |-> r.dir, index |-> r.index, flipX |-> r.flipX,
               src |-> img.src, screenX |-> screenX, screenY |-> screenY]}

\* render whose drawPlayer stores the clamped frame index in the actor.
OnRenderStoringIndex ==
    /\ needsRedraw
    /\ canvas' = UNION {drawPlayer(players[k]) : k \in DOMAIN players}
    /\ players' = [k \in DOMAIN players |->
                      IF drawPlayer(players[k]) = {}
                      THEN players[k]
                      ELSE [players[k] EXCEPT !.animationFrame =
                              (CHOOSE sprite \in drawPlayer(players[k]) :
                                  TRUE).index]]
    /\ needsRedraw' = FALSE
    /\ last' = Ev("render", FALSE, "none", <<>>)
    /\ UNCHANGED <<playerId, avatars, myPlayer, camera,
                   worldImageLoaded, playerDataReceived, connVars, held,
                   otherVars>>

\* One call of render with needsRedraw set: draw, then clear the flag.
OnRender ==
    /\ needsRedraw
    /\ canvas' = UNION {drawPlayer(players[k]) : k \in DOMAIN players}
    /\ needsRedraw' = FALSE
    /\ last' = Ev("render", FALSE, "none", <<>>)
    /\ UNCHANGED <<playerId, players, avatars, myPlayer, camera,
                   worldImageLoaded, playerDataReceived, connVars, held,
                   otherVars>>

(***************************************************************************)
(* Connection manager.                                                     *)
(***************************************************************************)
JoinRequest == [action |-> "join_game", username |-> "Blankey"]

\* attemptReconnect without the test against maxReconnectAttempts.
attemptReconnectNoGuard(attempts, pending) ==
    <<attempts + 1,
      Append(pending, reconnectBaseDelay * (attempts + 1)),
      "none">>

\* attemptReconnect that does not count the attempt.
attemptReconnectNoCount(attempts, pending) ==
    IF attempts < maxReconnectAttempts
    THEN <<attempts,
           Append(pending, reconnectBaseDelay * (attempts + 1)),
           "none">>
    ELSE <<attempts, pending, "Max reconnection attempts reached">>

\* attemptReconnect with <= for <.
attemptReconnectOffByOne(attempts, pending) ==
    IF attempts <= maxReconnectAttempts
    THEN <<attempts + 1,
           Append(pending, reconnectBaseDelay * (attempts + 1)),
           "none">>
    ELSE <<attempts, pending, "Max reconnection attempts reached">>

\* attemptReconnect: <<reconnectAttempts, timers, console.error>> after it.
attemptReconnect(attempts, pending) ==
    IF attempts < maxReconnectAttempts
    THEN <<attempts + 1,
           Append(pending, reconnectBaseDelay * (attempts + 1)),
           "none">>
    ELSE <<attempts, pending, "Max reconnection attempts reached">>

\* connectToServer called from event op with the timers in pending; failed
\* says whether the WebSocket constructor threw.
connectToServer(op, pending, failed) ==
    IF failed
    THEN LET r == attemptReconnect(reconnectAttempts, pending)
         IN  /\ reconnectAttempts' = r[1]
             /\ timers' = r[2]
             /\ throws' = throws + 1
             /\ last' = Ev(op, FALSE,
                           IF r[3] = "none"
                           THEN "Failed to connect to server"
                           ELSE r[3],
                           <<>>)
             /\ UNCHANGED <<ws, closes, lost>>
    ELSE /\ ws' = "CONNECTING"
         /\ timers' = pending
         /\ last' = Ev(op, FALSE, "none", <<>>)
         /\ UNCHANGED <<reconnectAttempts, closes, throws, lost>>

\* ws.onopen without joinGame.
OnOpenNoJoin ==
    /\ ws = "CONNECTING"
    /\ ws' = "OPEN"
    /\ reconnectAttempts' = 0
    /\ closes' = 0
    /\ throws' = 0
    /\ lost' = closes + throws
    /\ last' = Ev("open", FALSE, "none", <<>>)
    /\ UNCHANGED <<timers, syncVars, held, canvas, otherVars>>

\* ws.onopen that leaves reconnectAttempts as it is.
OnOpenNoReset ==
    /\ ws = "CONNECTING"
    /\ ws' = "OPEN"
    /\ closes' = 0
    /\ throws' = 0
    /\ lost' = closes + throws
    /\ last' = Ev("open", FALSE, "none", <<JoinRequest>>)
    /\ UNCHANGED <<reconnectAttempts, timers, syncVars, held, canvas, otherVars>>

\* ws.onopen: reset the counter and joinGame.
OnOpen ==
    /\ ws = "CONNECTING"
    /\ ws' = "OPEN"
    /\ reconnectAttempts' = 0
    /\ closes' = 0
    /\ throws' = 0
    /\ lost' = closes + throws
    /\ last' = Ev("open", FALSE, "none", <<JoinRequest>>)
    /\ UNCHANGED <<timers, syncVars, held, canvas, otherVars>>

\* The closing handshake of the open socket starts: readyState is CLOSING
\* until ws.onclose.
OnClosing ==
    /\ ws = "OPEN"
    /\ ws' = "CLOSING"
    /\ last' = Ev("closing", FALSE, "none", <<>>)
    /\ UNCHANGED <<reconnectAttempts, timers, closes, throws, lost, syncVars,
                   held, canvas, otherVars>>

\* ws.onclose that also empties the players table.
OnCloseClearingPlayers ==
    LET r == attemptReconnect(reconnectAttempts, timers)
    IN  /\ ws \in {"CONNECTING", "OPEN", "CLOSING"}
        /\ ws' = "CLOSED"
        /\ reconnectAttempts' = r[1]
        /\ timers' = r[2]
        /\ closes' = closes + 1
        /\ players' = EmptyTable
        /\ myPlayer' = NoPlayer
        /\ last' = Ev("close", FALSE, r[3], <<>>)
        /\ UNCHANGED <<throws, lost, playerId, avatars, camera, needsRedraw,
                       worldImageLoaded, playerDataReceived, held, canvas, otherVars>>

\* ws.onclose, of a socket that opened or of one that never did.
OnClose ==
    LET r == attemptReconnect(reconnectAttempts, timers)
    IN  /\ ws \in {"CONNECTING", "OPEN", "CLOSING"}
        /\ ws' = "CLOSED"
        /\ reconnectAttempts' = r[1]
        /\ timers' = r[2]
        /\ closes' = closes + 1
        /\ last' = Ev("close", FALSE, r[3], <<>>)
        /\ UNCHANGED <<throws, lost, syncVars, held, canvas, otherVars>>

\* ws.onerror that calls attemptReconnect as ws.onclose does.
OnSocketErrorReconnecting ==
    LET r == attemptReconnect(reconnectAttempts, timers)
    IN  /\ ws \in {"CONNECTING", "OPEN", "CLOSING"}
        /\ reconnectAttempts' = r[1]
        /\ timers' = r[2]
        /\ last' = Ev("error", FALSE, "WebSocket error", <<>>)
        /\ UNCHANGED <<ws, closes, throws, lost, syncVars, held, canvas, otherVars>>

\* ws.onerror: console.error only.
OnSocketError ==
    /\ ws \in {"CONNECTING", "OPEN", "CLOSING"}
    /\ last' = Ev("error", FALSE, "WebSocket error", <<>>)
    /\ UNCHANGED <<connVars, syncVars, held, canvas, otherVars>>

\* The i-th pending setTimeout fires: connectToServer.
OnTimer(i, failed) ==
    /\ i \in 1..Len(timers)
    /\ connectToServer("timer",
                       [j \in 1..(Len(timers) - 1) |->
                           IF j < i THEN timers[j] ELSE timers[j + 1]],
                       failed)
    /\ UNCHANGED <<syncVars, held, canvas, otherVars>>

(***************************************************************************)
(* Input listeners.                                                        *)
(***************************************************************************)
\* event.key values the keyboard produces here; "Shift" is no movement key.
Keys == {"ArrowUp", "ArrowRight", "a", "Shift"}
\* clientX - rect.left, clientY - rect.top of a click.
ClickPoints == {<<0, 0>>, <<400, 300>>}

\* The switch of the keydown listener.
Direction(key) ==
    CASE key \in {"ArrowUp", "w", "W"} -> "up"
      [] key \in {"ArrowDown", "s", "S"} -> "down"
      [] key \in {"ArrowLeft", "a", "A"} -> "left"
      [] key \in {"ArrowRight", "d", "D"} -> "right"
      [] OTHER -> NULL

\* The keys array of the keyup listener.
MovementKeys == {"ArrowUp", "ArrowDown", "ArrowLeft", "ArrowRight",
                 "w", "W", "a", "A", "s", "S", "d", "D"}

\* sendMoveCommand that tests this.ws only, not its readyState.
sendMoveCommandNoStateTest(payload) ==
    IF ws = NULL
    THEN <<>>
    ELSE IF "direction" \in DOMAIN payload
         THEN <<[action |-> "move", direction |-> payload.direction]>>
         ELSE <<[action |-> "move", x |-> payload.x, y |-> payload.y]>>

\* sendMoveCommand: the messages it puts on the socket.
sendMoveCommand(payload) ==
    IF ws # "OPEN"
    THEN <<>>
    ELSE IF "direction" \in DOMAIN payload
         THEN <<[action |-> "move", direction |-> payload.direction]>>
         ELSE <<[action |-> "move", x |-> payload.x, y |-> payload.y]>>

\* sendStopCommand: the messages it puts on the socket.
sendStopCommand ==
    IF ws # "OPEN" THEN <<>> ELSE <<[action |-> "stop"]>>

\* The keydown listener with auto-repeat suppressed (event.repeat skipped).
OnKeyDownNoRepeat(key) ==
    /\ held' = held \cup {key}
    /\ last' = [Ev("keydown", FALSE, "none",
                   IF Direction(key) # NULL /\ key \notin held
                   THEN sendMoveCommand([direction |-> Direction(key)])
                   ELSE <<>>)
                EXCEPT !.repeat = key \in held]
    /\ UNCHANGED <<connVars, syncVars, canvas, otherVars>>

\* The keydown listener; the keyboard repeats keydown for a key held down.
OnKeyDown(key) ==
    /\ held' = held \cup {key}
    /\ last' = [Ev("keydown", FALSE, "none",
                   IF Direction(key) # NULL
                   THEN sendMoveCommand([direction |-> Direction(key)])
                   ELSE <<>>)
                EXCEPT !.repeat = key \in held]
    /\ UNCHANGED <<connVars, syncVars, canvas, otherVars>>

\* The keyup listener.
OnKeyUp(key) ==
    /\ key \in held
    /\ held' = held \ {key}
    /\ last' = Ev("keyup", FALSE, "none",
                  IF key \in MovementKeys THEN sendStopCommand ELSE <<>>)
    /\ UNCHANGED <<connVars, syncVars, canvas, otherVars>>

\* The blur listener sending stop only while a movement key is held.
OnBlurIfHeld ==
    /\ last' = Ev("blur", FALSE, "none",
                  IF held \cap MovementKeys # {} THEN sendStopCommand ELSE <<>>)
    /\ UNCHANGED <<connVars, syncVars, held, canvas, otherVars>>

\* The blur listener.
OnBlur ==
    /\ last' = Ev("blur", FALSE, "none", sendStopCommand)
    /\ UNCHANGED <<connVars, syncVars, held, canvas, otherVars>>

\* The click listener ignoring the camera: the screen position is sent.
OnClickAtScreen(point2) ==
    /\ last' = Ev("click", FALSE, "none",
                  sendMoveCommand([x |-> RoundHalf(point2[1]),
                                   y |-> RoundHalf(point2[2])]))
    /\ UNCHANGED <<connVars, syncVars, held, canvas, otherVars>>

\* The click listener for a click at clientX - rect.left = point2[1] / 2 and
\* clientY - rect.top = point2[2] / 2: the canvas rectangle may lie at half
\* a pixel, and Math.round makes the sum with the camera a whole number.
OnClickAt(point2) ==
    /\ last' = Ev("click", FALSE, "none",
                  sendMoveCommand([x |-> RoundHalf(point2[1] + 2 * camera.x),
                                   y |-> RoundHalf(point2[2] + 2 * camera.y)]))
    /\ UNCHANGED <<connVars, syncVars, held, canvas, otherVars>>

\* The click listener for a click at whole pixels.
OnClick(point) == OnClickAt(<<2 * point[1], 2 * point[2]>>)

(***************************************************************************)
(* The state after new GameClient(): init has run setupCanvas,             *)
(* loadWorldMap, setupEventListeners, connectToServer and the first call   *)
(* of render, which drew and cleared needsRedraw.  sizes are the window    *)
(* sizes the run may start with.                                           *)
(***************************************************************************)
InitWith(sizes) ==
    /\ playerId = NULL
    /\ players = EmptyTable
    /\ avatars = EmptyTable
    /\ myPlayer = NoPlayer
    /\ \E size \in sizes :
          camera = [x |-> 0, y |-> 0, width |-> size[1], height |-> size[2]]
    /\ needsRedraw = FALSE
    /\ worldImageLoaded = FALSE
    /\ playerDataReceived = FALSE
    /\ held = {}
    /\ closes = 0
    /\ lost = 0
    /\ canvas = {}
    /\ keysPressed = {}
    /\ isMoving = FALSE
    /\ told = NULL
    /\ myPos = [x |-> 0, y |-> 0]
    /\ \E failed \in BOOLEAN :
          IF failed
          THEN /\ ws = NULL
               /\ reconnectAttempts = 1
               /\ timers = <<reconnectBaseDelay>>
               /\ throws = 1
               /\ last = Ev("init", FALSE, "Failed to connect to server", <<>>)
          ELSE /\ ws = "CONNECTING"
               /\ reconnectAttempts = 0
               /\ timers = <<>>
               /\ throws = 0
               /\ last = Ev("init", FALSE, "none", <<>>)

\* The world synchroniser on a connection that stays up, fed the inbound
\* messages msgs and the window sizes sizes.
NextSync(msgs, sizes) ==
    \/ OnOpen
    \/ \E message \in msgs : OnMessage(message)
    \/ \E size \in sizes : OnResize(size)
    \/ OnWorldImageLoad

(***************************************************************************)
(* Spec: the synchroniser and the camera.  Either actor may be the local   *)
(* one; p1 moves over both axes, and the window takes every size of        *)
(* Viewports.                                                              *)
(***************************************************************************)
Actor(k, px, py) == [id |-> k, x |-> px, y |-> py, facing |-> "south"]
CamSnapshots ==
    {t \in Tables(Ids, {Actor("p1", 100, 100), Actor("p1", 2040, 10),
                        Actor("p2", 2040, 10)}) :
        \A k \in DOMAIN t : t[k].id = k}
CamUpdates ==
    {u \in Tables(Ids, PartialUpdates) :
        /\ "p1" \in DOMAIN u => DOMAIN u["p1"] \subseteq {"x", "y"}
        /\ "p2" \in DOMAIN u => u["p2"] \in {[x |-> 100], [y |-> 1500]}}
CamMessages ==
    {JoinOk(pid, t, [a1 |-> AvEast]) : pid \in Ids, t \in CamSnapshots}
    \cup {JoinRejected("p1", t, [a1 |-> AvEast]) :
             t \in {EmptyTable, [p1 |-> Actor("p1", 2040, 10)]}}
    \cup {PlayerJoinedMsg(p, AvEast) :
             p \in {Actor("p1", 2040, 10), Actor("p2", 2040, 10)}}
    \cup {PlayersMovedMsg(u) : u \in CamUpdates}
    \cup {PlayerLeftMsg(pid) : pid \in Ids}
    \cup {UnknownMsg}

Init == InitWith(Viewports)
Next == NextSync(CamMessages, Viewports)
Spec == Init /\ [][Next]_vars

(***************************************************************************)
(* SpecRoster: the synchroniser and its two tables.  One window size; the  *)
(* updates of p1 carry every subset of the fields, and the asset sets      *)
(* vary.                                                                   *)
(***************************************************************************)
RosterActors ==
    {[id |-> k, x |-> 100, y |-> 10, facing |-> "south"] : k \in Ids}
RosterSnapshots ==
    {t \in Tables(Ids, RosterActors) : \A k \in DOMAIN t : t[k].id = k}
RosterUpdates ==
    {u \in Tables(Ids, {[f \in S |-> [x |-> 2040, y |-> 1500,
                                      facing |-> "west"][f]] :
                           S \in SUBSET Fields}) :
        "p2" \in DOMAIN u => u["p2"] = [facing |-> "west"]}
RosterMessages ==
    {JoinOk(pid, t, avs) :
        pid \in Ids, t \in RosterSnapshots,
        avs \in {EmptyTable, [a1 |-> AvEastAlt]}}
    \cup {UnknownMsg}
    \cup {PlayerJoinedMsg(p, av) : p \in RosterActors, av \in {AvEast, AvFull}}
    \cup {PlayersMovedMsg(u) : u \in RosterUpdates}
    \cup {PlayerLeftMsg(pid) : pid \in Ids}

InitRoster == InitWith({<<800, 600>>})
NextRoster == NextSync(RosterMessages, {<<800, 600>>})
SpecRoster == InitRoster /\ [][NextRoster]_vars

(***************************************************************************)
(* SpecDraw: the synchroniser with rendering.  p1 wears the asset set a1   *)
(* (frames for east only), p2 wears a2 (south and west); facings and       *)
(* animation frames vary, also past the end of every frame sequence.       *)
(***************************************************************************)
DrawActor(k, av) ==
    [id |-> k, x |-> 100, y |-> 10, facing |-> "south", avatar |-> av,
     animationFrame |-> 0]
DrawFacings == {"west", "east", "north"}
DrawFrames == {1, 5}
DrawUpdates ==
    {[p1 |-> [facing |-> f]] : f \in DrawFacings}
    \cup {[p1 |-> [animationFrame |-> n]] : n \in DrawFrames}
    \cup {[p2 |-> [facing |-> "west", animationFrame |-> 5]]}
DrawMessages ==
    {JoinOk("p1", [p1 |-> DrawActor("p1", "a1")], [a1 |-> AvEast]),
     PlayerJoinedMsg(DrawActor("p2", "a2"), AvFull)}
    \cup {PlayersMovedMsg(u) : u \in DrawUpdates}

NextDraw ==
    \/ OnOpen
    \/ \E message \in DrawMessages : OnMessage(message)
    \/ \E n \in DOMAIN avatars :
          \E d \in DOMAIN avatars[n].loadedImagesByDir :
             \E i \in 1..Len(avatars[n].loadedImagesByDir[d]) :
                OnImageLoad(n, d, i)
    \/ OnRender
SpecDraw == InitRoster /\ [][NextDraw]_vars

(***************************************************************************)
(* SpecFaulty: the synchroniser fed messages of the wrong shape and data   *)
(* that does not parse, between well-formed messages.                      *)
(***************************************************************************)
MalformedMessages ==
    {PlayerJoinedNoAvatar(p) : p \in RosterActors}
    \cup {PlayerJoinedNoPlayer(AvEast), PlayersMovedNoPlayers}
FaultyMessages ==
    {JoinOk(pid, t, [a1 |-> AvEastAlt]) : pid \in Ids, t \in RosterSnapshots}
    \cup {PlayerJoinedMsg(p, AvFull) : p \in RosterActors}
    \cup {PlayersMovedMsg([p1 |-> [x |-> 2040]]), PlayerLeftMsg("p2")}
    \cup MalformedMessages

NextFaulty ==
    \/ NextSync(FaultyMessages, {<<800, 600>>})
    \/ OnUnparsableMessage
SpecFaulty == InitRoster /\ [][NextFaulty]_vars

(***************************************************************************)
(* SpecConn: the connection manager and the input listeners, with no       *)
(* inbound message.                                                        *)
(***************************************************************************)
NextConn ==
    \/ OnOpen
    \/ OnClosing
    \/ OnClose
    \/ OnSocketError
    \/ \E i \in 1..Len(timers), failed \in BOOLEAN : OnTimer(i, failed)
    \/ \E key \in Keys : OnKeyDown(key)
    \/ \E key \in Keys : OnKeyUp(key)
    \/ OnBlur
    \/ \E point \in ClickPoints : OnClick(point)

InitConn == InitWith({<<800, 600>>})
SpecConn == InitConn /\ [][NextConn]_vars

(***************************************************************************)
(* SpecCenter: centerCameraOnPlayer as a function of the actor's position  *)
(* and the viewport size, for positions that are not whole pixels.  A      *)
(* length v is held in fixed point as Scale * v, so that quarters of a     *)
(* pixel and half an odd viewport size are exact.                          *)
(***************************************************************************)
Scale == 4

\* Math.round of a fixed-point value: the nearest whole pixel, halves up.
RoundQ(q) == Scale * ((2 * q + Scale) \div (2 * Scale))

\* ClampAxisQ without Math.round.
ClampAxisQNoRound(posQ, size, world) ==
    Max(0, Min(posQ - (Scale \div 2) * size, Scale * (world - size)))

\* One axis of centerCameraOnPlayer in fixed point: posQ is the actor's
\* coordinate, size and world are whole pixels.
ClampAxisQ(posQ, size, world) ==
    RoundQ(Max(0, Min(posQ - (Scale \div 2) * size, Scale * (world - size))))

\* Actor coordinates in fixed point: 0, 100.25, 400.5, 400.75, 1024.5, 2040
\* and 2047.75 for x; 10, 300.5, 1024.25 and 2000 for y.
CenterXs == {0, 401, 1602, 1603, 4098, 8160, 8191}
CenterYs == {40, 1202, 4097, 8000}

\* A call of centerCameraOnPlayer with this.myPlayer at actor and the
\* viewport size; the event record holds the arguments and the result.
CenterCall(actor, size) ==
    /\ last' = [op |-> "centerCameraOnPlayer",
                actor |-> actor,
                viewport |-> size,
                camera |-> <<ClampAxisQ(actor[1], size[1], worldWidth),
                             ClampAxisQ(actor[2], size[2], worldHeight)>>]
    /\ UNCHANGED <<syncVars, connVars, held, canvas, otherVars>>

NextCenter ==
    \E x \in CenterXs, y \in CenterYs, size \in Viewports :
       CenterCall(<<x, y>>, size)
SpecCenter == InitConn /\ [][NextCenter]_vars

(***************************************************************************)
(* SpecUnreachable: the server is unreachable, no socket ever opens.       *)
(* Every socket that is connecting fails and fires onclose, and every      *)
(* pending timer fires: the two fairness conditions.                       *)
(***************************************************************************)
SessionKeys == {"ArrowUp"}

NextUnreachable ==
    \/ OnClose
    \/ OnSocketError
    \/ \E i \in 1..Len(timers), failed \in BOOLEAN : OnTimer(i, failed)
    \/ \E key \in SessionKeys : OnKeyDown(key)
    \/ \E key \in SessionKeys : OnKeyUp(key)
    \/ OnBlur
SpecUnreachable ==
    /\ InitConn
    /\ [][NextUnreachable]_vars
    /\ WF_vars(OnClose)
    /\ WF_vars(\E i \in 1..Len(timers), failed \in BOOLEAN : OnTimer(i, failed))

(***************************************************************************)
(* SpecSession: a whole session.  The synchroniser on a socket that may    *)
(* close and be replaced by the retry timers, with key, blur, click and    *)
(* resize events in between.  p1 joins at (100, 10) and may move to        *)
(* x = 2040; a join for p2 carries an empty snapshot.                      *)
(***************************************************************************)
SessionActor(k) == [id |-> k, x |-> 100, y |-> 10, facing |-> "south"]
\* The click of the session, in half pixels: at (400.5, 300).
SessionClicks == {<<801, 600>>}
SessionMessages ==
    {JoinOk("p1", [p1 |-> SessionActor("p1")], [a1 |-> AvEast]),
     JoinOk("p2", EmptyTable, EmptyTable),
     JoinRejected("p2", [p2 |-> SessionActor("p2")], EmptyTable),
     UnknownMsg,
     NoActionMsg,
     PlayerJoinedMsg(SessionActor("p2"), AvEast),
     PlayersMovedMsg([p1 |-> [x |-> 2040]]),
     PlayersMovedMsg([p2 |-> [facing |-> "west"]])}
    \cup {PlayerLeftMsg(pid) : pid \in Ids}

NextSession ==
    \/ OnOpen
    \/ OnClose
    \/ \E i \in 1..Len(timers), failed \in BOOLEAN : OnTimer(i, failed)
    \/ \E message \in SessionMessages : OnMessage(message)
    \/ \E size \in {<<800, 600>>} : OnResize(size)
    \/ \E key \in SessionKeys : OnKeyDown(key)
    \/ \E key \in SessionKeys : OnKeyUp(key)
    \/ OnBlur
    \/ \E point2 \in SessionClicks : OnClickAt(point2)
SpecSession == InitConn /\ [][NextSession]_vars

(***************************************************************************)
(* Properties of the synchroniser and the camera (checked under Spec).     *)
(***************************************************************************)
\* The camera invariant of the data model, for a camera object cam.
InWorld(cam) ==
    /\ 0 <= cam.x /\ cam.x <= Max(0, worldWidth - cam.width)
    /\ 0 <= cam.y /\ cam.y <= Max(0, worldHeight - cam.height)

\* The local actor as the code holds it: the object this.myPlayer refers to.
LocalActor == Deref(myPlayer, players, playerId)

\* C2: right after every execution of centerCameraOnPlayer the camera lies in
\* [0, max(0, world - viewport)] on both axes, whatever the actor's position
\* and the viewport size (also a viewport larger than the world); viewport
\* 800x600 with the actor at (2040, 10) gives camera (1248, 0).
C2_CameraInWorldAfterCentering ==
    last.centered =>
        /\ InWorld(camera)
        /\ (camera.width = 800 /\ camera.height = 600
              /\ LocalActor.x = 2040 /\ LocalActor.y = 10)
           => (camera.x = 1248 /\ camera.y = 0)

\* C2 witness: the camera was just centered on the actor at (2040, 10) in an
\* 800x600 viewport.
C2_Witness ==
    /\ last.centered
    /\ camera.width = 800 /\ camera.height = 600
    /\ LocalActor.x = 2040 /\ LocalActor.y = 10
    /\ camera.x = 1248 /\ camera.y = 0

\* C3 (as claimed): the camera bound holds in every reachable state, under
\* any interleaving of messages, image load and resize, also for a resize
\* while myPlayer is null.
C3_CameraAlwaysInWorld == InWorld(camera)

\* C4 (as claimed): the camera is never centered while worldImageLoaded or
\* playerDataReceived is false.  Both flags only ever go from false to true,
\* so "no centering has happened yet in a state with a flag false" is the
\* same as "every step that centers ends with both flags true".
C4_NoCenteringBeforeBothReady ==
    last.centered => (worldImageLoaded /\ playerDataReceived)

\* C5: no centering is missed.  The step that completes the pair (world
\* image loaded, join_game success containing the local actor) centers the
\* camera, clamped, on the local actor's position: a join success whose
\* snapshot holds playerId, arriving after the image, centers on
\* players[playerId]; the image load, arriving after such a join, centers on
\* the actor this.myPlayer refers to.
C5_CenteringNotMissed ==
    /\ (last.op = "join_game" /\ last.error = "none" /\ worldImageLoaded
          /\ playerId \in DOMAIN players)
       => /\ last.centered
          /\ camera = centerCameraOnPlayer(camera, players[playerId])
    /\ (last.op = "world_image_load" /\ playerDataReceived
          /\ myPlayer.kind # "null")
       => /\ last.centered
          /\ camera = centerCameraOnPlayer(camera, LocalActor)

\* C5 witness: the join for p1 at (100, 100) came first, the image finished
\* loading in the last step, and the camera was centered in that step.
C5_Witness ==
    /\ last.op = "world_image_load" /\ last.centered
    /\ playerId = "p1" /\ myPlayer.kind = "entry"
    /\ players["p1"].x = 100 /\ players["p1"].y = 100
    /\ camera.x = ClampAxis(100, camera.width, worldWidth)
    /\ camera.y = ClampAxis(100, camera.height, worldHeight)

\* C6 (as claimed): player_left(id) removes the entry of id, and a later
\* players_moved that references only ids without an entry (here: removed
\* by player_left) neither re-creates an entry nor changes players, camera
\* or playerId, also when the id is the local actor's.
C6_MovedAfterLeftIsNoOp ==
    [][/\ \A pid \in Ids :
            OnMessage(PlayerLeftMsg(pid)) => pid \notin DOMAIN players'
       /\ \A u \in CamUpdates :
            (/\ DOMAIN u # {}
             /\ OnMessage(PlayersMovedMsg(u))
             /\ DOMAIN u \cap DOMAIN players = {})
            => UNCHANGED <<players, camera, playerId>>]_vars

\* C9: a join_game message with success = false leaves playerId, players,
\* avatars, myPlayer, playerDataReceived and the camera as they were, even
\* when the message carries a roster; it only reports the error.
C9_RejectedJoinChangesNothing ==
    [][last'.op = "join_game" =>
       \A message \in CamMessages :
          (ActionOf(message) = "join_game" /\ ~message.success
             /\ OnMessage(message))
          => /\ UNCHANGED <<playerId, players, avatars, myPlayer,
                            playerDataReceived, camera>>
             /\ last'.error = "Join game failed"]_vars

\* C9 witness: a rejection was just handled by a client that had joined and
\* centered its camera before.
C9_Witness ==
    /\ last.op = "join_game" /\ last.error = "Join game failed"
    /\ playerId = "p2" /\ myPlayer.kind = "entry"
    /\ "p1" \in DOMAIN players /\ camera.x = 1248

(***************************************************************************)
(* Properties of the two tables (checked under SpecRoster).                *)
(***************************************************************************)
\* C1: handlePlayersMoved changes, on each actor that is in the players
\* table, only the fields present in that actor's partial update: a field
\* the update carries takes the update's value, every other field of the
\* actor (its id included) and every actor the message does not name keep
\* their values, and no entry is added or removed.
C1_MovedMergesFields ==
    [][last'.op = "players_moved" =>
       \A u \in RosterUpdates :
          OnMessage(PlayersMovedMsg(u)) =>
             /\ DOMAIN players' = DOMAIN players
             /\ \A pid \in DOMAIN players :
                   /\ DOMAIN players'[pid] = DOMAIN players[pid]
                   /\ \A f \in DOMAIN players[pid] :
                         players'[pid][f] =
                            IF pid \in DOMAIN u /\ f \in DOMAIN u[pid]
                            THEN u[pid][f]
                            ELSE players[pid][f]]_vars

\* C1 witness: an update of x alone moved p1 away from its snapshot position
\* and left y and facing as the snapshot gave them.
C1_Witness ==
    /\ last.op = "players_moved"
    /\ "p1" \in DOMAIN players
    /\ players["p1"].x = 2040 /\ players["p1"].y = 10
    /\ players["p1"].facing = "south"

\* C10: after a join_game message with success = true the players table is
\* exactly message.players, the avatars table holds exactly the asset sets of
\* message.avatars (same names, same definitions), and playerId is
\* message.playerId: nothing from before the message survives unless the
\* snapshot holds it.
C10_JoinReplacesTables ==
    [][last'.op = "join_game" =>
       \A message \in RosterMessages :
          (ActionOf(message) = "join_game" /\ OnMessage(message)) =>
             /\ players' = message.players
             /\ DOMAIN avatars' = DOMAIN message.avatars
             /\ \A n \in DOMAIN message.avatars :
                   /\ avatars'[n].name = message.avatars[n].name
                   /\ avatars'[n].frames = message.avatars[n].frames
             /\ playerId' = message.playerId]_vars

\* C10 witness: a second join (local actor p2, snapshot without p1, no asset
\* set) was just applied and nothing of the earlier roster is left.
C10_Witness ==
    /\ last.op = "join_game" /\ last.error = "none"
    /\ playerId = "p2" /\ DOMAIN players = {"p2"} /\ DOMAIN avatars = {}
    /\ myPlayer.kind = "entry" /\ playerDataReceived

(***************************************************************************)
(* Properties of the connection manager and the input listeners (checked   *)
(* under SpecConn).                                                        *)
(***************************************************************************)
MaxReached == "Max reconnection attempts reached"

\* C7 (as claimed): after N consecutive closes with no open (and no failed
\* construction) between them, N < maxReconnectAttempts, the close has
\* scheduled exactly one connectToServer, with delay 2000 x N; at
\* N = maxReconnectAttempts nothing is scheduled and the terminal state is
\* reported.
C7_TerminalAtMaxCloses ==
    (last.op = "close" /\ throws = 0) =>
        /\ closes < maxReconnectAttempts =>
              (timers = <<reconnectBaseDelay * closes>> /\ last.error = "none")
        /\ closes = maxReconnectAttempts =>
              (timers = <<>> /\ last.error = MaxReached)

\* C7 (amended): the N-th consecutive close schedules exactly one
\* connectToServer with delay 2000 x N for every N up to and including
\* maxReconnectAttempts, so the delays strictly increase with N; it is the
\* close after that, N = maxReconnectAttempts + 1, that schedules nothing and
\* reports the terminal state.
C7_TerminalAfterMaxCloses ==
    (last.op = "close" /\ throws = 0) =>
        /\ closes <= maxReconnectAttempts =>
              /\ timers = <<reconnectBaseDelay * closes>>
              /\ reconnectAttempts = closes
              /\ last.error = "none"
        /\ closes > maxReconnectAttempts =>
              /\ timers = <<>>
              /\ reconnectAttempts = maxReconnectAttempts
              /\ last.error = MaxReached

\* C7 witness: the sixth consecutive close, which gives up.
C7_Witness ==
    /\ last.op = "close" /\ throws = 0
    /\ closes = maxReconnectAttempts + 1
    /\ timers = <<>> /\ last.error = MaxReached

\* C8 (as claimed): with the channel open, releasing one of two held
\* direction keys sends exactly one move command, for the direction still
\* held, and no stop; releasing the last held direction key sends exactly
\* one stop.
C8_KeyUpKeepsRemainingDirection ==
    [][last'.op = "keyup" =>
       \A key \in Keys \cap MovementKeys :
          (ws = "OPEN" /\ OnKeyUp(key)) =>
             LET before == held \cap MovementKeys
                 after == held' \cap MovementKeys
             IN  /\ Cardinality(before) = 2 =>
                       \E k \in after :
                          last'.sent = <<[action |-> "move",
                                          direction |-> Direction(k)]>>
                 /\ after = {} => last'.sent = <<[action |-> "stop"]>>]_vars

(***************************************************************************)
(* Properties of the message intake (checked under SpecFaulty).            *)
(***************************************************************************)
\* C11 (as claimed): an inbound message that fails to parse or has the wrong
\* shape for its action is dropped as a whole: the step that reports it
\* leaves players, avatars, playerId and the camera as they were, the socket
\* stays open and no reconnect is scheduled.
C11_MalformedDroppedWhole ==
    [][last'.error = ParseError =>
          /\ UNCHANGED <<players, avatars, playerId, camera>>
          /\ ws' = "OPEN"
          /\ UNCHANGED <<reconnectAttempts, timers>>]_vars

(***************************************************************************)
(* Properties of the outbound commands (checked under SpecConn).           *)
(***************************************************************************)
InputOps == {"keydown", "keyup", "blur", "click"}
MoveTo(direction) == [action |-> "move", direction |-> direction]
StopCommand == [action |-> "stop"]

\* C12: sendMoveCommand and sendStopCommand transmit at once when the socket
\* is OPEN and do nothing otherwise (ws null, CONNECTING, CLOSING, CLOSED):
\* an input event changes nothing of the connection or the world state; with
\* the socket not OPEN it sends nothing, with the socket OPEN it sends its
\* command in that very step; and no other step (open, close, timer, error)
\* ever sends a move or a stop, so a dropped command is never sent later.
C12_SendOnlyWhenOpen ==
    [][/\ last'.op \in InputOps =>
             /\ UNCHANGED <<connVars, syncVars>>
             /\ ws # "OPEN" => last'.sent = <<>>
             /\ ws = "OPEN" =>
                   /\ \A key \in Keys \cap MovementKeys :
                         /\ OnKeyDown(key) =>
                               last'.sent = <<MoveTo(Direction(key))>>
                         /\ OnKeyUp(key) => last'.sent = <<StopCommand>>
                   /\ last'.op = "blur" => last'.sent = <<StopCommand>>
                   /\ \A point \in ClickPoints :
                         OnClick(point) =>
                            last'.sent = <<[action |-> "move",
                                            x |-> point[1] + camera.x,
                                            y |-> point[2] + camera.y]>>
       /\ last'.op \notin InputOps =>
             \A i \in 1..Len(last'.sent) : last'.sent[i] = JoinRequest]_vars

\* C12 witness: ArrowUp went down while the socket was closed and a retry
\* was pending; nothing was sent.
C12_Witness ==
    /\ last.op = "keydown" /\ held = {"ArrowUp"}
    /\ ws = "CLOSED" /\ timers # <<>>
    /\ last.sent = <<>>

(***************************************************************************)
(* Properties of drawPlayer (checked under SpecDraw).                      *)
(***************************************************************************)
EastOnly(avatar) == DOMAIN avatar.frames = {"east"}

\* C13: for an actor whose asset set has frames for east only and whose
\* facing is west, drawPlayer takes the east frame sequence with the mirror
\* flag set, for every animationFrame >= 0, an index past the end of the
\* sequence giving the last east frame; and every sprite on the canvas drawn
\* for such an actor is that east frame, mirrored.
C13_WestFallsBackToEastMirrored ==
    /\ \A k \in DOMAIN players :
          LET p == players[k]
          IN  (/\ "avatar" \in DOMAIN p /\ p.avatar \in DOMAIN avatars
               /\ EastOnly(avatars[p.avatar])
               /\ Facing(p) = "west")
              => LET r == resolveFrames(avatars[p.avatar], p)
                     east == avatars[p.avatar].frames.east
                 IN  /\ r.found /\ r.dir = "east" /\ r.flipX
                     /\ r.index = IF p.animationFrame >= Len(east)
                                  THEN Len(east) - 1
                                  ELSE p.animationFrame
    /\ \A sprite \in canvas :
          (sprite.avatar = AvEast.name /\ sprite.facing = "west")
          => /\ sprite.dir = "east" /\ sprite.flipX
             /\ sprite.src =
                   IF sprite.animationFrame >= Len(AvEast.frames.east)
                   THEN AvEast.frames.east[Len(AvEast.frames.east)]
                   ELSE AvEast.frames.east[sprite.animationFrame + 1]

\* C13 witness: the last draw put p1, facing west with animationFrame 5 on an
\* asset set of two east frames, on the canvas as the last east frame,
\* mirrored.
C13_Witness ==
    /\ last.op = "render"
    /\ \E sprite \in canvas :
          /\ sprite.id = "p1" /\ sprite.facing = "west"
          /\ sprite.animationFrame = 5
          /\ sprite.dir = "east" /\ sprite.flipX /\ sprite.src = "e1"

\* C14: every ws.onopen sets reconnectAttempts to 0, so the attempts used
\* are always the failures since the last open (up to the maximum) whatever
\* number of failures preceded that open, and the first loss after an open
\* schedules the retry with the shortest delay; and no retry timer is
\* pending right after an open.
C14_OpenRestoresBudget ==
    /\ last.op = "open" => (reconnectAttempts = 0 /\ timers = <<>>)
    /\ reconnectAttempts = Min(closes + throws, maxReconnectAttempts)
    /\ (last.op = "close" /\ closes + throws = 1) =>
          timers = <<reconnectBaseDelay>>

\* C14 witness: the socket opened after three failures, was lost again, and
\* that loss scheduled the retry with the shortest delay.
C14_Witness ==
    /\ last.op = "close" /\ lost = 3
    /\ closes = 1 /\ throws = 0
    /\ reconnectAttempts = 1 /\ timers = <<reconnectBaseDelay>>

C16_BlurAlwaysSendsStop ==
    last.op = "blur" => last.sent = <<StopCommand>>

\* C16 (amended): a window blur on an open socket always sends exactly one
\* stop command, whatever keys are or are not held; a blur while the socket
\* is not open (null, CONNECTING, CLOSING, CLOSED) sends nothing.
C16_BlurSendsStopWhenOpen ==
    last.op = "blur" =>
        last.sent = IF ws = "OPEN" THEN <<StopCommand>> ELSE <<>>

\* C16 witness: a blur on the open socket with no key held sent a stop.
C16_Witness ==
    /\ last.op = "blur" /\ ws = "OPEN" /\ held = {}
    /\ last.sent = <<StopCommand>>

\* C19: exactly one join_game is sent per socket open, and it is the first
\* message on that connection: the step in which a socket becomes OPEN
\* sends join_game and nothing else, no other step sends a join_game, and
\* every move or stop is sent on a socket that was OPEN before the step,
\* that is, after the step that sent that socket's join_game.
C19_JoinFirstOncePerOpen ==
    [][/\ (ws # "OPEN" /\ ws' = "OPEN") => last'.sent = <<JoinRequest>>
       /\ \A i \in 1..Len(last'.sent) :
             IF last'.sent[i] = JoinRequest
             THEN ws # "OPEN" /\ ws' = "OPEN"
             ELSE ws = "OPEN" /\ ws' = "OPEN"]_vars

\* C19 witness: a click sent a move on a socket that opened, and sent its
\* join_game, after two failed attempts.
C19_Witness ==
    /\ last.op = "click" /\ Len(last.sent) = 1
    /\ last.sent[1].action = "move"
    /\ ws = "OPEN" /\ lost = 2

(***************************************************************************)
(* More properties of the two tables (checked under SpecRoster).           *)
(***************************************************************************)
\* C17: player_joined(player, avatar) upserts: afterwards players[player.id]
\* is the supplied record (added if the id was new) and avatars[avatar.name]
\* is the supplied definition (in place of one of the same name); every
\* other actor, every other asset set and the camera are as before.
C17_PlayerJoinedUpserts ==
    [][last'.op = "player_joined" =>
       \A message \in RosterMessages :
          (ActionOf(message) = "player_joined" /\ OnMessage(message)) =>
             LET id == message.player.id
                 name == message.avatar.name
             IN  /\ DOMAIN players' = DOMAIN players \cup {id}
                 /\ players'[id] = message.player
                 /\ \A k \in DOMAIN players \ {id} : players'[k] = players[k]
                 /\ DOMAIN avatars' = DOMAIN avatars \cup {name}
                 /\ avatars'[name].name = name
                 /\ avatars'[name].frames = message.avatar.frames
                 /\ \A n \in DOMAIN avatars \ {name} : avatars'[n] = avatars[n]
                 /\ camera' = camera]_vars

\* C17 witness: player_joined for the new actor p2 with the asset set a1 just
\* replaced the a1 of the snapshot (one east frame) by the supplied one (two
\* east frames), next to p1.
C17_Witness ==
    /\ last.op = "player_joined" /\ last.error = "none"
    /\ DOMAIN players = {"p1", "p2"}
    /\ DOMAIN avatars = {"a1"} /\ avatars["a1"].frames = AvEast.frames

\* C20 (as claimed): an asset set, once in the avatars table, is never
\* removed: no step takes a name out of the table, a second join_game
\* included.
C20_AssetSetsNeverRemoved ==
    [][DOMAIN avatars \subseteq DOMAIN avatars']_vars

\* C20 (amended): player_joined, players_moved, player_left and every other
\* event except a join_game success take no name out of the avatars table
\* (also when the actor that brought the asset set leaves); a join_game
\* success leaves exactly the names of its snapshot, so it removes every
\* asset set the snapshot does not hold.
C20_AssetSetsRemovedOnlyByJoin ==
    [][IF last'.op = "join_game" /\ last'.error = "none"
       THEN \E message \in RosterMessages :
               /\ ActionOf(message) = "join_game"
               /\ OnMessage(message)
               /\ DOMAIN avatars' = DOMAIN message.avatars
       ELSE DOMAIN avatars \subseteq DOMAIN avatars']_vars

\* C20 witness: both actors have left and the asset sets a1 and a2 that
\* came with the join and with player_joined are still in the table.
C20_Witness ==
    /\ last.op = "player_left"
    /\ DOMAIN players = {}
    /\ DOMAIN avatars = {"a1", "a2"}

(***************************************************************************)
(* More properties of the camera (checked under Spec).                     *)
(***************************************************************************)
\* C18 (as claimed): the camera is recomputed from the local actor's current
\* position on every players_moved that contains playerId and on every
\* resize: after each such event, with the local actor players[playerId] in
\* the table, the camera equals the result of the centering algorithm for
\* that actor's position and the viewport size.
C18_CameraFollowsLocalActor ==
    [][/\ last'.op = "players_moved" =>
             \A u \in CamUpdates :
                (/\ OnMessage(PlayersMovedMsg(u))
                 /\ playerId \in DOMAIN u
                 /\ playerId \in DOMAIN players)
                => camera' = centerCameraOnPlayer(camera', players'[playerId])
       /\ (last'.op = "resize" /\ playerId \in DOMAIN players) =>
             camera' = centerCameraOnPlayer(camera', players'[playerId])]_vars

(***************************************************************************)
(* Properties of a whole session (checked under SpecSession).              *)
(***************************************************************************)
\* C21 (as claimed): playerId is null until the first successful join_game
\* on a connection, is set by that message and never changes again while
\* that connection lasts, whatever further messages arrive on it (another
\* join_game success included).
C21_PlayerIdSetOnce ==
    [][/\ (ws = "OPEN" /\ ws' = "OPEN" /\ playerId # NULL) =>
             playerId' = playerId
       /\ (ws # "OPEN" /\ ws' = "OPEN") => playerId' = NULL]_vars

\* C21 (amended): playerId is null until the first join_game success of the
\* session; every join_game success sets it to the playerId of the message
\* (a later one on the same connection too), and no other event changes
\* it: not a rejected join, any other message, a close or a new open.
C21_PlayerIdSetByEveryJoin ==
    [][IF last'.op = "join_game" /\ last'.error = "none"
       THEN \E message \in SessionMessages :
               /\ ActionOf(message) = "join_game" /\ message.success
               /\ OnMessage(message)
               /\ playerId' = message.playerId
       ELSE playerId' = playerId]_vars

\* C21 witness: the join for p1 was followed by the move of p1 to x = 2040
\* (camera 1248) and then, on the same session, by the join for p2 with an
\* empty snapshot: playerId is p2 now.
C21_Witness ==
    /\ last.op = "join_game" /\ last.error = "none"
    /\ playerId = "p2" /\ camera.x = 1248

\* C30: actors are removed only by a player_left for their id or by a
\* join_game success whose snapshot omits them: every entry that a step
\* takes out of the players table is the one named by the player_left just
\* handled or is missing from the snapshot of the join_game success just
\* handled; players_moved, player_joined, a rejected join, unrecognised
\* messages, resize, input events, socket close and retry timers remove
\* nothing.
C30_ActorsRemovedOnlyByLeftOrJoin ==
    [][\A k \in DOMAIN players \ DOMAIN players' :
          \/ last'.op = "player_left" /\ OnMessage(PlayerLeftMsg(k))
          \/ /\ last'.op = "join_game" /\ last'.error = "none"
             /\ \E message \in SessionMessages :
                   /\ ActionOf(message) = "join_game" /\ message.success
                   /\ OnMessage(message)
                   /\ k \notin DOMAIN message.players]_vars

\* C30 witness: the socket closed twice and a retry is connecting; p1 and
\* p2, whom no message has named since, are still in the table.
C30_Witness ==
    /\ ws = "CONNECTING" /\ closes = 2
    /\ DOMAIN players = {"p1", "p2"}

\* C24 (as claimed): whenever myPlayer is non-null it is the very record
\* stored at players[playerId], after any sequence of join_game,
\* player_joined, players_moved and player_left messages (also with the
\* local actor's own id), so the position the camera follows is that of
\* players[playerId].
C24_MyPlayerIsTableEntry ==
    myPlayer.kind # "null" =>
        /\ myPlayer.kind = "entry"
        /\ playerId \in DOMAIN players
        /\ LocalActor = players[playerId]

(***************************************************************************)
(* More properties of rendering (checked under SpecDraw).                  *)
(***************************************************************************)
\* What draw() puts on the canvas in the current state.
Drawn == UNION {drawPlayer(players[k]) : k \in DOMAIN players}

\* C22: the draw step is read-only and idempotent with respect to the
\* synchronised state: a render leaves playerId, players, avatars and the
\* camera unchanged, and what it has drawn is what a further draw of the
\* state it leaves would draw again.
C22_DrawIsReadOnly ==
    [][last'.op = "render" =>
          /\ UNCHANGED <<playerId, players, avatars, camera>>
          /\ canvas' = Drawn]_vars

\* C22 witness: the last render drew p1 with the clamped index 1 and the
\* actor still carries the animationFrame 5 the server sent.
C22_Witness ==
    /\ last.op = "render"
    /\ \E sprite \in canvas : sprite.id = "p1" /\ sprite.index = 1
    /\ players["p1"].animationFrame = 5

\* C29: drawPlayer never reads outside a frame sequence.  For a facing whose
\* sequence is non-empty the frame used is that sequence's frame of index
\* min(animationFrame, length - 1), whatever the length of the sequence of
\* that direction; when the sequence of the facing is missing or empty,
\* also after the fallback from west to east, the actor is skipped; and
\* every sprite on the canvas is a frame of the sequence it names.
C29_FrameIndexWithinSequence ==
    /\ \A k \in DOMAIN players :
          LET p == players[k]
              imgs == avatars[p.avatar].loadedImagesByDir
              r == resolveFrames(avatars[p.avatar], p)
          IN  p.avatar \in DOMAIN avatars =>
                 /\ (p.facing \in DOMAIN imgs /\ Len(imgs[p.facing]) > 0) =>
                       /\ r.found /\ r.dir = p.facing /\ ~r.flipX
                       /\ r.index = IF p.animationFrame >= Len(imgs[p.facing])
                                    THEN Len(imgs[p.facing]) - 1
                                    ELSE p.animationFrame
                 /\ r.found => (r.index + 1) \in DOMAIN imgs[r.dir]
                 /\ ~r.found => drawPlayer(p) = {}
    /\ \A sprite \in canvas :
          LET frames == IF sprite.avatar = AvEast.name
                        THEN AvEast.frames
                        ELSE AvFull.frames
          IN  /\ sprite.dir \in DOMAIN frames
              /\ (sprite.index + 1) \in DOMAIN frames[sprite.dir]
              /\ sprite.src = frames[sprite.dir][sprite.index + 1]

\* C29 witness: the last render drew p2, facing west with animationFrame 5,
\* as the last of the two west frames of a2 (whose south sequence has one
\* frame), and skipped p1, whose asset set a1 has no frames for north.
C29_Witness ==
    /\ last.op = "render"
    /\ \E sprite \in canvas :
          /\ sprite.id = "p2" /\ sprite.animationFrame = 5
          /\ sprite.dir = "west" /\ sprite.index = 1 /\ sprite.src = "w1"
    /\ "p1" \in DOMAIN players /\ players["p1"].facing = "north"
    /\ \A sprite \in canvas : sprite.id # "p1"

\* C23 (as claimed): if an avatar frame image finishes loading after the
\* last state-changing event, a draw that shows the actor with that image
\* happens without any further message, input or resize.  A draw happens
\* only while needsRedraw is set, so whatever draw() would show in the
\* current state is on the canvas or a draw is still due.
C23_ReadyImageGetsDrawn ==
    Drawn \subseteq canvas \/ needsRedraw

(***************************************************************************)
(* Properties of the reconnect loop.                                       *)
(***************************************************************************)
\* connectToServer calls so far while no socket has opened: each ended in a
\* failed construction or in a close, or its socket is still connecting.
Invocations == closes + throws + (IF ws = "CONNECTING" THEN 1 ELSE 0)

\* No socket connecting or open and no retry timer pending.
Disconnected == ws \notin {"CONNECTING", "OPEN"} /\ timers = <<>>

\* C25: with the server unreachable (no socket ever opens) connectToServer
\* is invoked at most 1 + maxReconnectAttempts times, and the client reaches
\* and stays in a state with no socket open and no retry timer pending.
C25_ReconnectTerminates ==
    /\ [](Invocations <= 1 + maxReconnectAttempts)
    /\ <>[]Disconnected

\* C25 witness: the construction of the socket failed in init and in each
\* of the maxReconnectAttempts retries; nothing is pending any more.
C25_Witness ==
    /\ Disconnected /\ ws = NULL
    /\ throws = 1 + maxReconnectAttempts
    /\ last.error = MaxReached

\* A connection effort in flight: a socket that is CONNECTING or OPEN, or a
\* pending retry timer.
Efforts == Len(timers) + (IF ws \in {"CONNECTING", "OPEN"} THEN 1 ELSE 0)

\* C26: there is never more than one connection effort in flight: in every
\* reachable state at most one of a socket that is CONNECTING or OPEN and a
\* pending retry timer exists, and never two timers.
C26_OneEffortInFlight == Efforts <= 1

\* C26 witness: the socket that opened after one failure was lost twice
\* since; one retry timer is pending and no socket is connecting or open.
C26_Witness ==
    /\ ws = "CLOSED" /\ Len(timers) = 1
    /\ lost = 1 /\ closes = 2

\* C27: 0 <= reconnectAttempts <= maxReconnectAttempts in every reachable
\* state, under any interleaving of open, close, failed construction and
\* timer events.
C27_AttemptsWithinBudget ==
    0 <= reconnectAttempts /\ reconnectAttempts <= maxReconnectAttempts

\* C27 witness: the last retry of the budget is under way, its socket
\* connecting, after constructions failed and sockets closed.
C27_Witness ==
    /\ reconnectAttempts = maxReconnectAttempts
    /\ ws = "CONNECTING" /\ throws > 0 /\ closes > 0

(***************************************************************************)
(* Properties of centerCameraOnPlayer (checked under SpecCenter).          *)
(***************************************************************************)
\* round(max(0, min(actor - viewport / 2, world - viewport))) said without
\* the functions: c is a whole pixel; when the centered window lies inside
\* the world c is the whole pixel nearest to actor - viewport / 2 (halves
\* up); left of the world it is 0; right of it, it is the last position
\* that keeps the window inside, or 0 for a viewport larger than the world.
CenteredAxis(c, actorQ, size, world) ==
    LET ideal == actorQ - (Scale \div 2) * size
        limit == Scale * (world - size)
    IN  /\ c % Scale = 0
        /\ (0 <= ideal /\ ideal <= limit) =>
              (2 * c - Scale <= 2 * ideal /\ 2 * ideal < 2 * c + Scale)
        /\ ideal < 0 => c = 0
        /\ ideal > limit => c = Max(0, limit)

\* C28: centerCameraOnPlayer computes, per axis independently,
\* round(max(0, min(actor - viewport / 2, world - viewport))): the camera is
\* centered on the actor whenever the centered window lies inside the
\* world, and camera.x and camera.y are whole numbers after every
\* centering, also for odd viewport sizes and actor coordinates that are
\* not whole; for whole coordinates it is what ClampAxis computes.
C28_CenteringFormula ==
    last.op = "centerCameraOnPlayer" =>
        /\ CenteredAxis(last.camera[1], last.actor[1], last.viewport[1],
                        worldWidth)
        /\ CenteredAxis(last.camera[2], last.actor[2], last.viewport[2],
                        worldHeight)
        /\ last.actor[1] % Scale = 0 =>
              last.camera[1] =
                 Scale * ClampAxis(last.actor[1] \div Scale, last.viewport[1],
                                   worldWidth)

\* C28 witness: the actor at (1024.5, 300.5) in the 801x601 viewport: the
\* ideal corner (624, 0) is inside the world and the camera is at it.
C28_Witness ==
    /\ last.op = "centerCameraOnPlayer"
    /\ last.actor = <<4098, 1202>> /\ last.viewport = <<801, 601>>
    /\ last.camera = <<Scale * 624, 0>>

(***************************************************************************)
(* The camera and messages about other actors (checked under Spec).        *)
(***************************************************************************)
\* The actor ids a message of the three roster kinds is about; none for any
\* other message.
MentionedIds(message) ==
    CASE ActionOf(message) = "player_joined" -> {message.player.id}
      [] ActionOf(message) = "players_moved" -> DOMAIN message.players
      [] ActionOf(message) = "player_left" -> {message.playerId}
      [] OTHER -> {}

\* C31: a players_moved, player_joined or player_left message that does not
\* mention the local actor's id (playerId), and an unrecognised message,
\* leave camera.x and camera.y as they were.
C31_CameraMovesOnlyWithLocalActor ==
    [][last'.op \in {"player_joined", "players_moved", "player_left", "unknown"}
          => \A message \in CamMessages :
                (/\ ActionOf(message) # "join_game"
                 /\ playerId \notin MentionedIds(message)
                 /\ OnMessage(message))
                => (camera'.x = camera.x /\ camera'.y = camera.y)]_vars

\* C31 witness: a players_moved message that did not carry playerId was
\* handled while the camera was not centred on the local actor, who is in
\* the table.
C31_Witness ==
    /\ last.op = "players_moved" /\ ~last.centered
    /\ myPlayer.kind = "entry"
    /\ camera.x # ClampAxis(LocalActor.x, camera.width, worldWidth)

(***************************************************************************)
(* Unrecognised messages (checked under SpecSession).                      *)
(***************************************************************************)
\* The actions handleServerMessage has a case for.
KnownActions == {"join_game", "player_joined", "players_moved", "player_left"}

\* C32: a parsed message whose action is none of the four known ones, or is
\* missing, changes none of playerId, players, avatars, camera and
\* reconnectAttempts.
C32_UnknownActionChangesNothing ==
    [][last'.op = "unknown"
          => \A message \in SessionMessages :
                (ActionOf(message) \notin KnownActions /\ OnMessage(message))
                => UNCHANGED <<playerId, players, avatars, camera,
                               reconnectAttempts>>]_vars

\* C32 witness: an unrecognised message was handled after a join, with
\* actors and asset sets in the tables and the camera away from the origin.
C32_Witness ==
    /\ last.op = "unknown"
    /\ playerId # NULL
    /\ players # EmptyTable /\ avatars # EmptyTable
    /\ camera.x > 0

(***************************************************************************)
(* Redraw requests (checked under SpecFaulty).                             *)
(***************************************************************************)
\* C33: no redraw is lost.  Every handler that changes players, avatars or
\* the camera sets needsRedraw, so that the next render tick draws the
\* latest state.
C33_EveryChangeSetsNeedsRedraw ==
    [][(players' # players \/ avatars' # avatars \/ camera' # camera)
          => needsRedraw']_vars

(***************************************************************************)
(* The click listener (checked under SpecSession).                         *)
(***************************************************************************)
\* n is Math.round(v2 / 2): the whole number nearest to v2 / 2, the upper
\* one of two equally near.
IsRounded(n, v2) == 2 * n - 1 <= v2 /\ v2 < 2 * n + 1

\* C34: a click at canvas position (sx, sy) with the socket OPEN sends
\* exactly one message, a move whose target is (round(sx + camera.x),
\* round(sy + camera.y)) for the camera at the time of the click, whatever
\* keys are held; it sends no stop and leaves the held keys alone.
C34_ClickSendsWorldTarget ==
    [][(last'.op = "click" /\ ws = "OPEN")
          => \A point2 \in SessionClicks :
                OnClickAt(point2) =>
                   /\ Len(last'.sent) = 1
                   /\ DOMAIN last'.sent[1] = {"action", "x", "y"}
                   /\ last'.sent[1].action = "move"
                   /\ IsRounded(last'.sent[1].x, point2[1] + 2 * camera.x)
                   /\ IsRounded(last'.sent[1].y, point2[2] + 2 * camera.y)
                   /\ held' = held]_vars

\* C34 witness: a click at (400.5, 300) with ArrowUp held and the camera at
\* x = 1248 sent the one move to (1649, 300).
C34_Witness ==
    /\ last.op = "click"
    /\ held = {"ArrowUp"}
    /\ camera.x = 1248
    /\ last.sent = <<[action |-> "move", x |-> 1649, y |-> 300]>>

(***************************************************************************)
(* The second client of src/script.js (lines 459-744).  It keeps the same  *)
(* kind of state as the client of game.js, held here in the same           *)
(* variables: playerId is myPlayerId, players and avatars are its two      *)
(* tables, camera holds viewport.x, viewport.y and the canvas size,        *)
(* worldImageLoaded is worldLoaded, ws the readyState of its one socket,   *)
(* held the keys the keyboard holds down and keysPressed the keys the      *)
(* client has marked true in its keysPressed object.  draw() writes to     *)
(* the canvas, the player list and the image cache only; none of them is   *)
(* part of this state, and draw() is the last call of every handler.       *)
(***************************************************************************)
\* The state of the client of game.js that the other clients do not have.
gameOnlyVars == <<myPlayer, reconnectAttempts, timers, needsRedraw,
                  playerDataReceived, closes, throws, lost, canvas>>

\* The movement command a send put on the socket last: prev when nothing was
\* sent, "stop" for a stop, the direction for a move.
Told(sent, prev) ==
    IF sent = <<>> THEN prev
    ELSE IF sent[1].action = "stop" THEN "stop" ELSE sent[1].direction

\* updateViewport: centre on players[myPlayerId] and clamp to the 2048 map;
\* the canvas sizes used are even, so canvas.width / 2 is whole.
S2updateViewport(cam, pid, tbl) ==
    IF pid = NULL \/ pid \notin DOMAIN tbl
    THEN cam
    ELSE [cam EXCEPT
            !.x = Max(0, Min(tbl[pid].x - cam.width \div 2, 2048 - cam.width)),
            !.y = Max(0, Min(tbl[pid].y - cam.height \div 2,
                             2048 - cam.height))]

\* case 'players_moved': Object.assign(players, message.players) copies every
\* record of the message into the table under its id.
S2PlayersMoved(message) ==
    LET tbl == Assign(players, message.players)
        mine == playerId \in DOMAIN message.players
    IN  /\ players' = tbl
        /\ camera' = IF mine THEN S2updateViewport(camera, playerId, tbl)
                     ELSE camera
        /\ last' = Ev("players_moved", mine, "none", <<>>)
        /\ UNCHANGED <<playerId, avatars>>

\* case 'join_game'.
S2JoinGame(message) ==
    IF message.success
    THEN LET tbl == Assign(players, message.players)
         IN  /\ playerId' = message.playerId
             /\ players' = tbl
             /\ avatars' = Assign(avatars, message.avatars)
             /\ camera' = S2updateViewport(camera, message.playerId, tbl)
             /\ last' = Ev("join_game", message.playerId \in DOMAIN tbl,
                           "none", <<>>)
    ELSE /\ last' = Ev("join_game", FALSE, "Failed to join game", <<>>)
         /\ UNCHANGED <<playerId, players, avatars, camera>>

\* case 'player_joined'.
S2PlayerJoined(message) ==
    /\ players' = [id \in DOMAIN players \cup {message.player.id} |->
                      IF id = message.player.id
                      THEN message.player
                      ELSE players[id]]
    /\ avatars' = IF "avatar" \in DOMAIN message
                  THEN [n \in DOMAIN avatars \cup {message.avatar.name} |->
                          IF n = message.avatar.name
                          THEN message.avatar
                          ELSE avatars[n]]
                  ELSE avatars
    /\ last' = Ev("player_joined", FALSE, "none", <<>>)
    /\ UNCHANGED <<playerId, camera>>

\* case 'player_left'.
S2PlayerLeft(message) ==
    /\ players' = [id \in DOMAIN players \ {message.playerId} |-> players[id]]
    /\ last' = Ev("player_left", FALSE, "none", <<>>)
    /\ UNCHANGED <<playerId, avatars, camera>>

\* ws.onmessage: the switch has no default case.
S2OnMessage(message) ==
    /\ ws = "OPEN"
    /\ CASE ActionOf(message) = "join_game" -> S2JoinGame(message)
         [] ActionOf(message) = "player_joined" -> S2PlayerJoined(message)
         [] ActionOf(message) = "players_moved" -> S2PlayersMoved(message)
         [] ActionOf(message) = "player_left" -> S2PlayerLeft(message)
         [] OTHER -> /\ last' = Ev("unknown", FALSE, "none", <<>>)
                     /\ UNCHANGED <<playerId, players, avatars, camera>>
    /\ UNCHANGED <<ws, worldImageLoaded, held, keysPressed, isMoving, told,
                   myPos, gameOnlyVars>>

\* ws.onopen: the join request.
S2OnOpen ==
    /\ ws = "CONNECTING"
    /\ ws' = "OPEN"
    /\ last' = Ev("open", FALSE, "none",
                  <<[action |-> "join_game", username |-> "Armaghan"]>>)
    /\ UNCHANGED <<playerId, players, avatars, camera, worldImageLoaded, held,
                   keysPressed, isMoving, told, myPos, gameOnlyVars>>

\* ws.onclose: a log line; the client never reconnects.
S2OnClose ==
    /\ ws \in {"CONNECTING", "OPEN"}
    /\ ws' = "CLOSED"
    /\ last' = Ev("close", FALSE, "none", <<>>)
    /\ UNCHANGED <<playerId, players, avatars, camera, worldImageLoaded, held,
                   keysPressed, isMoving, told, myPos, gameOnlyVars>>

\* The resize listener: resizeCanvas and draw; the viewport is not moved.
S2OnResize(size) ==
    /\ camera' = [camera EXCEPT !.width = size[1], !.height = size[2]]
    /\ last' = Ev("resize", FALSE, "none", <<>>)
    /\ UNCHANGED <<playerId, players, avatars, ws, worldImageLoaded, held,
                   keysPressed, isMoving, told, myPos, gameOnlyVars>>

\* world.onload.
S2OnWorldLoad ==
    /\ ~worldImageLoaded
    /\ worldImageLoaded' = TRUE
    /\ last' = Ev("world_image_load", FALSE, "none", <<>>)
    /\ UNCHANGED <<playerId, players, avatars, camera, ws, held, keysPressed,
                   isMoving, told, myPos, gameOnlyVars>>

\* sendMoveCommand(direction) and sendStopCommand of the second client.
S2sendMoveCommand(direction) ==
    IF ws # "OPEN" THEN <<>>
    ELSE <<[action |-> "move", direction |-> direction]>>
S2sendStopCommand ==
    IF ws # "OPEN" THEN <<>> ELSE <<[action |-> "stop"]>>

\* The keys of the keysPressed object, in the order Object.entries lists
\* them.
S2KeyOrder == <<"ArrowUp", "ArrowDown", "ArrowLeft", "ArrowRight">>

\* The switch of the keydown listener.
S2Direction(key) ==
    CASE key = "ArrowUp" -> "up"
      [] key = "ArrowDown" -> "down"
      [] key = "ArrowLeft" -> "left"
      [] key = "ArrowRight" -> "right"
      [] OTHER -> NULL

\* key.toLowerCase().replace('arrow', '').
LowerWithoutArrow(key) ==
    CASE key = "ArrowUp" -> "up"
      [] key = "ArrowDown" -> "down"
      [] key = "ArrowLeft" -> "left"
      [] key = "ArrowRight" -> "right"
      [] key = "a" -> "a"

\* The first key of the keysPressed object whose value is true.
FirstPressed(pressed) ==
    S2KeyOrder[CHOOSE i \in DOMAIN S2KeyOrder :
                  /\ S2KeyOrder[i] \in pressed
                  /\ \A j \in 1..(i - 1) : S2KeyOrder[j] \notin pressed]

\* The keydown listener; the keyboard repeats keydown for a key held down.
S2OnKeyDown(key) ==
    LET acts == /\ playerId # NULL
                /\ S2Direction(key) # NULL
                /\ key \notin keysPressed
        sent == IF acts THEN S2sendMoveCommand(S2Direction(key)) ELSE <<>>
    IN  /\ held' = held \cup {key}
        /\ keysPressed' = IF acts THEN keysPressed \cup {key} ELSE keysPressed
        /\ told' = Told(sent, told)
        /\ last' = [Ev("keydown", FALSE, "none", sent)
                    EXCEPT !.repeat = key \in held]
        /\ UNCHANGED <<playerId, players, avatars, camera, ws,
                       worldImageLoaded, isMoving, myPos, gameOnlyVars>>

\* The keyup listener sending stop whenever a tracked key goes up.
S2OnKeyUpAlwaysStopping(key) ==
    LET acts == playerId # NULL /\ key \in keysPressed
        sent == IF acts THEN S2sendStopCommand ELSE <<>>
    IN  /\ key \in held
        /\ held' = held \ {key}
        /\ keysPressed' = IF acts THEN keysPressed \ {key} ELSE keysPressed
        /\ told' = Told(sent, told)
        /\ last' = Ev("keyup", FALSE, "none", sent)
        /\ UNCHANGED <<playerId, players, avatars, camera, ws,
                       worldImageLoaded, isMoving, myPos, gameOnlyVars>>

\* The keyup listener.
S2OnKeyUp(key) ==
    LET acts == playerId # NULL /\ key \in keysPressed
        rest == keysPressed \ {key}
        sent == IF ~acts THEN <<>>
                ELSE IF rest = {} THEN S2sendStopCommand
                ELSE S2sendMoveCommand(LowerWithoutArrow(FirstPressed(rest)))
    IN  /\ key \in held
        /\ held' = held \ {key}
        /\ keysPressed' = IF acts THEN rest ELSE keysPressed
        /\ told' = Told(sent, told)
        /\ last' = Ev("keyup", FALSE, "none", sent)
        /\ UNCHANGED <<playerId, players, avatars, camera, ws,
                       worldImageLoaded, isMoving, myPos, gameOnlyVars>>

(***************************************************************************)
(* SpecScript2: the second client of script.js.  p1 is the local actor;    *)
(* the updates of p1 carry both coordinates, those of p2 one field.        *)
(***************************************************************************)
S2Actor(k) == [id |-> k, x |-> 100, y |-> 10, facing |-> "south"]
S2Messages ==
    {JoinOk("p1", [p1 |-> S2Actor("p1")], [a1 |-> AvEast]),
     JoinRejected("p1", [p1 |-> S2Actor("p1")], EmptyTable),
     PlayerJoinedMsg(S2Actor("p2"), AvEast),
     PlayerJoinedNoAvatar(S2Actor("p2")),
     PlayersMovedMsg([p1 |-> [x |-> 2040, y |-> 10]]),
     PlayersMovedMsg([p2 |-> [x |-> 2040]]),
     PlayerLeftMsg("p2"),
     UnknownMsg}
S2Keys == {"ArrowUp", "ArrowLeft", "ArrowRight", "a"}
S2Sizes == {<<800, 600>>, <<1000, 600>>}

InitScript == InitConn /\ ws = "CONNECTING"
NextScript2 ==
    \/ S2OnOpen
    \/ S2OnClose
    \/ \E message \in S2Messages : S2OnMessage(message)
    \/ \E size \in S2Sizes : S2OnResize(size)
    \/ S2OnWorldLoad
    \/ \E key \in S2Keys : S2OnKeyDown(key)
    \/ \E key \in S2Keys : S2OnKeyUp(key)
SpecScript2 == InitScript /\ [][NextScript2]_vars

(***************************************************************************)
(* Properties of the second client of script.js (checked under             *)
(* SpecScript2).                                                           *)
(***************************************************************************)
\* C35: a players_moved message merges only the supplied fields into the
\* actors the table already has (omitted fields keep their values) and
\* creates no entry for an id the table does not have.
C35_Script2MovedMergesFields ==
    [][last'.op = "players_moved"
          => \A message \in S2Messages :
                (ActionOf(message) = "players_moved" /\ S2OnMessage(message))
                => /\ DOMAIN players' = DOMAIN players
                   /\ \A id \in DOMAIN players :
                         players'[id] =
                            IF id \in DOMAIN message.players
                            THEN Assign(players[id], message.players[id])
                            ELSE players[id]]_vars

\* C36: once joined and with the socket OPEN, releasing one of two tracked
\* arrow keys sends exactly one move, for the direction of the key still
\* held, and no stop; releasing the only tracked arrow key sends exactly one
\* stop; a keydown for a key already tracked sends nothing.
C36_Script2KeyUpResolves ==
    [][(last'.op \in {"keydown", "keyup"} /\ playerId # NULL /\ ws = "OPEN")
          => \A key \in keysPressed :
                /\ (S2OnKeyUp(key) /\ Cardinality(keysPressed) = 2)
                   => \E other \in keysPressed \ {key} :
                         last'.sent = <<MoveTo(S2Direction(other))>>
                /\ (S2OnKeyUp(key) /\ keysPressed = {key})
                   => last'.sent = <<StopCommand>>
                /\ S2OnKeyDown(key) => last'.sent = <<>>]_vars

\* C36 witness: of ArrowUp and ArrowLeft held after the join, ArrowUp went
\* up and the one message sent was the move to the left.
C36_Witness ==
    /\ last.op = "keyup"
    /\ playerId # NULL /\ ws = "OPEN"
    /\ held = {"ArrowLeft"} /\ keysPressed = {"ArrowLeft"}
    /\ last.sent = <<MoveTo("left")>>
    /\ told = "left"

(***************************************************************************)
(* The first client of src/script.js (lines 1-457): its socket and its     *)
(* input translator.  ws is the readyState of gameState.ws, keysPressed    *)
(* the Set gameState.keysPressed, isMoving the flag gameState.isMoving.    *)
(* handleServerMessage reads and writes none of the three, and the client  *)
(* opens one socket and never reconnects.                                  *)
(***************************************************************************)
\* The direction sendMoveCommand derives from the pressed keys: the first of
\* up, down, left, right whose arrow key is pressed.
S1Direction(pressed) ==
    IF "ArrowUp" \in pressed THEN "up"
    ELSE IF "ArrowDown" \in pressed THEN "down"
    ELSE IF "ArrowLeft" \in pressed THEN "left"
    ELSE IF "ArrowRight" \in pressed THEN "right"
    ELSE NULL

\* sendMoveCommand that does not test gameState.isMoving.
S1sendMoveCommandNoFlag(pressed) ==
    IF ws # "OPEN" THEN <<>>
    ELSE IF S1Direction(pressed) # NULL
         THEN <<[action |-> "move", direction |-> S1Direction(pressed)]>>
         ELSE <<>>

\* sendMoveCommand with gameState.keysPressed = pressed: what it sends; it
\* sets isMoving exactly when it sends.
S1sendMoveCommand(pressed) ==
    IF ws # "OPEN" THEN <<>>
    ELSE IF S1Direction(pressed) # NULL /\ ~isMoving
         THEN <<[action |-> "move", direction |-> S1Direction(pressed)]>>
         ELSE <<>>

\* sendStopCommand: what it sends; it clears isMoving exactly when it sends.
S1sendStopCommand ==
    IF ws # "OPEN" THEN <<>>
    ELSE IF isMoving THEN <<[action |-> "stop"]>> ELSE <<>>

\* key.startsWith('Arrow') for the values of event.code used.
StartsWithArrow(code) ==
    code \in {"ArrowUp", "ArrowDown", "ArrowLeft", "ArrowRight"}

\* handleKeyDown; the keyboard repeats keydown for a key held down.
handleKeyDown(code) ==
    LET pressed == IF StartsWithArrow(code)
                   THEN keysPressed \cup {code}
                   ELSE keysPressed
        sent == IF StartsWithArrow(code)
                THEN S1sendMoveCommand(pressed)
                ELSE <<>>
    IN  /\ held' = held \cup {code}
        /\ keysPressed' = pressed
        /\ isMoving' = (isMoving \/ sent # <<>>)
        /\ told' = Told(sent, told)
        /\ last' = [Ev("keydown", FALSE, "none", sent)
                    EXCEPT !.repeat = code \in held]
        /\ UNCHANGED <<playerId, players, avatars, camera, ws,
                       worldImageLoaded, myPos, gameOnlyVars>>

\* handleKeyUp.
handleKeyUp(code) ==
    LET pressed == IF StartsWithArrow(code)
                   THEN keysPressed \ {code}
                   ELSE keysPressed
        sent == IF StartsWithArrow(code) /\ pressed = {}
                THEN S1sendStopCommand
                ELSE <<>>
    IN  /\ code \in held
        /\ held' = held \ {code}
        /\ keysPressed' = pressed
        /\ isMoving' = (isMoving /\ sent = <<>>)
        /\ told' = Told(sent, told)
        /\ last' = Ev("keyup", FALSE, "none", sent)
        /\ UNCHANGED <<playerId, players, avatars, camera, ws,
                       worldImageLoaded, myPos, gameOnlyVars>>

\* gameState.ws.onopen: the join request.
S1OnOpen ==
    /\ ws = "CONNECTING"
    /\ ws' = "OPEN"
    /\ last' = Ev("open", FALSE, "none",
                  <<[action |-> "join_game", username |-> "Dylan"]>>)
    /\ UNCHANGED <<playerId, players, avatars, camera, worldImageLoaded, held,
                   keysPressed, isMoving, told, myPos, gameOnlyVars>>

\* gameState.ws.onclose: a log line.
S1OnClose ==
    /\ ws \in {"CONNECTING", "OPEN"}
    /\ ws' = "CLOSED"
    /\ last' = Ev("close", FALSE, "none", <<>>)
    /\ UNCHANGED <<playerId, players, avatars, camera, worldImageLoaded, held,
                   keysPressed, isMoving, told, myPos, gameOnlyVars>>

(***************************************************************************)
(* SpecScript1: the first client of script.js from the load event on, with *)
(* three arrow keys and one other key.                                     *)
(***************************************************************************)
S1Codes == {"ArrowUp", "ArrowLeft", "ArrowRight", "KeyA"}

NextScript1 ==
    \/ S1OnOpen
    \/ S1OnClose
    \/ \E code \in S1Codes : handleKeyDown(code)
    \/ \E code \in S1Codes : handleKeyUp(code)
SpecScript1 == InitScript /\ [][NextScript1]_vars

(***************************************************************************)
(* Properties of the first client of script.js (checked under              *)
(* SpecScript1).                                                           *)
(***************************************************************************)
\* The last movement command on the socket was a move.
ToldMove == told \notin {NULL, "stop"}

\* C37: move and stop commands alternate on the socket, starting with a
\* move, and isMoving is true exactly when the last command sent was a
\* move: an event sends at most one command; a move is sent only when the
\* last command was not a move, a stop only when the last command was a
\* move; and only key events send commands.
C37_MoveStopAlternate ==
    [][/\ isMoving <=> ToldMove
       /\ isMoving' <=> ToldMove'
       /\ Len(last'.sent) <= 1
       /\ last'.op \in {"keydown", "keyup"} =>
             \A i \in 1..Len(last'.sent) :
                /\ last'.sent[i].action \in {"move", "stop"}
                /\ last'.sent[i].action = "move" => ~ToldMove
                /\ last'.sent[i].action = "stop" => ToldMove
       /\ last'.op \notin {"keydown", "keyup"} =>
             /\ told' = told
             /\ \A i \in 1..Len(last'.sent) :
                   last'.sent[i].action = "join_game"]_vars

\* C37 witness: the release of the last arrow key put a stop on the socket
\* after the move of its keydown, and isMoving is false again.
C37_Witness ==
    /\ last.op = "keyup" /\ last.sent = <<StopCommand>>
    /\ keysPressed = {}
    /\ told = "stop" /\ ~isMoving

\* C38: when one of two held arrow keys is released, a move for the
\* direction of the key that remains held is sent.
C38_KeyUpSendsRemainingDirection ==
    [][(last'.op = "keyup" /\ ws = "OPEN")
          => \A code \in keysPressed :
                (handleKeyUp(code) /\ Cardinality(keysPressed) = 2)
                => last'.sent = <<MoveTo(S1Direction(keysPressed \ {code}))>>]_vars

(***************************************************************************)
(* The client of src/main.js.  playerId is myId, myPos the local position, *)
(* players the Map id -> [x, y, name, avatarUrl], camera holds viewport.x, *)
(* viewport.y and the view size canvas.width / DPR, canvas.height / DPR,   *)
(* worldImageLoaded is mapReady and ws the readyState of its one socket.   *)
(* draw() and updateHud() write to the canvas and the HUD only.            *)
(***************************************************************************)
\* mapImg.width and mapImg.height once world.jpg has loaded.
mapImgWidth == 2048
mapImgHeight == 2048

\* The event record of this client: from is myPos before the event.
MainEv(op, centered, sent, from) ==
    [op |-> op, centered |-> centered, error |-> "none", sent |-> sent,
     repeat |-> FALSE, from |-> from]

\* clampViewportToMap: nothing until the map image has loaded.
clampViewportToMap(cam, ready) ==
    IF ~ready
    THEN cam
    ELSE [cam EXCEPT !.x = Max(0, Min(cam.x, mapImgWidth - cam.width)),
                     !.y = Max(0, Min(cam.y, mapImgHeight - cam.height))]

\* centerViewportOn(pos): Math.round(pos - view / 2), then the clamp.
centerViewportOn(cam, pos, ready) ==
    clampViewportToMap([cam EXCEPT !.x = RoundHalf(2 * pos.x - cam.width),
                                   !.y = RoundHalf(2 * pos.y - cam.height)],
                       ready)

\* The Map entry made for an element pl of msg.players.
MainEntry(pl) ==
    [x |-> pl.x, y |-> pl.y, name |-> pl.name, avatarUrl |-> pl.avatarUrl]

\* The ids of a list of msg.players and the last element with a given id.
ListIds(list) == {list[i].id : i \in DOMAIN list}
LastOf(list, id) ==
    list[CHOOSE i \in DOMAIN list :
            /\ list[i].id = id
            /\ \A j \in DOMAIN list : j > i => list[j].id # id]

\* for (const pl of list) players.set(pl.id, {...}) on the Map tbl.
SetAll(tbl, list) ==
    [id \in DOMAIN tbl \cup ListIds(list) |->
        IF id \in ListIds(list) THEN MainEntry(LastOf(list, id)) ELSE tbl[id]]

\* if (msg.type === "joined").
MainJoined(msg) ==
    LET pos == [x |-> msg.you.x, y |-> msg.you.y]
        self == [x |-> pos.x, y |-> pos.y, name |-> "Tim",
                 avatarUrl |-> msg.you.avatarUrl]
        tbl == SetAll(EmptyTable, msg.players)
    IN  /\ playerId' = msg.id
        /\ myPos' = pos
        /\ players' = [id \in DOMAIN tbl \cup {msg.id} |->
                          IF id = msg.id THEN self ELSE tbl[id]]
        /\ camera' = centerViewportOn(camera, pos, worldImageLoaded)
        /\ last' = MainEv("joined", TRUE, <<>>, myPos)

\* if (msg.type === "state").
MainState(msg) ==
    LET pos == IF playerId \in ListIds(msg.players)
               THEN [x |-> LastOf(msg.players, playerId).x,
                     y |-> LastOf(msg.players, playerId).y]
               ELSE myPos
    IN  /\ players' = SetAll(players, msg.players)
        /\ myPos' = pos
        /\ camera' = centerViewportOn(camera, pos, worldImageLoaded)
        /\ last' = MainEv("state", TRUE, <<>>, myPos)
        /\ UNCHANGED playerId

\* if (msg.type === "moved") that leaves a predicted local position alone.
MainMovedKeepingPrediction(msg) ==
    LET mine == msg.id = playerId
    IN  /\ players' = IF msg.id \in DOMAIN players /\ ~mine
                      THEN [players EXCEPT ![msg.id].x = msg.x,
                                           ![msg.id].y = msg.y]
                      ELSE players
        /\ myPos' = myPos
        /\ camera' = IF mine
                     THEN centerViewportOn(camera, myPos, worldImageLoaded)
                     ELSE camera
        /\ last' = MainEv("moved", mine, <<>>, myPos)
        /\ UNCHANGED playerId

\* if (msg.type === "moved").
MainMoved(msg) ==
    LET mine == msg.id = playerId
        pos == [x |-> msg.x, y |-> msg.y]
    IN  /\ players' = IF msg.id \in DOMAIN players
                      THEN [players EXCEPT ![msg.id].x = msg.x,
                                           ![msg.id].y = msg.y]
                      ELSE players
        /\ myPos' = IF mine THEN pos ELSE myPos
        /\ camera' = IF mine
                     THEN centerViewportOn(camera, pos, worldImageLoaded)
                     ELSE camera
        /\ last' = MainEv("moved", mine, <<>>, myPos)
        /\ UNCHANGED playerId

\* if (msg.type === "players").
MainPlayers(msg) ==
    /\ players' = SetAll(EmptyTable, msg.players)
    /\ last' = MainEv("players", FALSE, <<>>, myPos)
    /\ UNCHANGED <<playerId, myPos, camera>>

\* The message listener.
MainOnMessage(msg) ==
    /\ ws = "OPEN"
    /\ CASE msg.type = "joined" -> MainJoined(msg)
         [] msg.type = "state" -> MainState(msg)
         [] msg.type = "moved" -> MainMoved(msg)
         [] msg.type = "players" -> MainPlayers(msg)
         [] OTHER -> /\ last' = MainEv("unknown", FALSE, <<>>, myPos)
                     /\ UNCHANGED <<playerId, myPos, players, camera>>
    /\ UNCHANGED <<avatars, ws, worldImageLoaded, held, keysPressed, isMoving,
                   told, gameOnlyVars>>

\* The open listener: the join request.
MainOnOpen ==
    /\ ws = "CONNECTING"
    /\ ws' = "OPEN"
    /\ last' = MainEv("open", FALSE, <<[type |-> "join", name |-> "Tim"]>>,
                      myPos)
    /\ UNCHANGED <<playerId, players, avatars, camera, worldImageLoaded, held,
                   keysPressed, isMoving, told, myPos, gameOnlyVars>>

\* The close listener: a status text.
MainOnClose ==
    /\ ws \in {"CONNECTING", "OPEN"}
    /\ ws' = "CLOSED"
    /\ last' = MainEv("close", FALSE, <<>>, myPos)
    /\ UNCHANGED <<playerId, players, avatars, camera, worldImageLoaded, held,
                   keysPressed, isMoving, told, myPos, gameOnlyVars>>

\* The resize listener: resizeCanvas and draw; the viewport is not moved.
MainOnResize(size) ==
    /\ camera' = [camera EXCEPT !.width = size[1], !.height = size[2]]
    /\ last' = MainEv("resize", FALSE, <<>>, myPos)
    /\ UNCHANGED <<playerId, players, avatars, ws, worldImageLoaded, held,
                   keysPressed, isMoving, told, myPos, gameOnlyVars>>

\* mapImg.onload: mapReady and draw; the viewport is not clamped.
MainOnMapLoad ==
    /\ ~worldImageLoaded
    /\ worldImageLoaded' = TRUE
    /\ last' = MainEv("map_load", FALSE, <<>>, myPos)
    /\ UNCHANGED <<playerId, players, avatars, camera, ws, held, keysPressed,
                   isMoving, told, myPos, gameOnlyVars>>

\* The step of the keydown listener: [dx, dy] for event.key.
step == 16
MainDelta(key) ==
    [dx |-> IF key \in {"ArrowLeft", "a"} THEN -step
            ELSE IF key \in {"ArrowRight", "d"} THEN step ELSE 0,
     dy |-> IF key \in {"ArrowUp", "w"} THEN -step
            ELSE IF key \in {"ArrowDown", "s"} THEN step ELSE 0]

\* The x and y coordinates the server reports in the messages of the run.
MainXs == {100, 2040}
MainYs == {10}
\* The number of steps the local prediction may run ahead of a position the
\* server reports before the next server message arrives.
MaxAhead == 2
Near(v, bases) ==
    \E b \in bases : v - b <= step * MaxAhead /\ b - v <= step * MaxAhead

\* The keydown listener: optimistic prediction, then the move command.
MainOnKeyDown(key) ==
    LET d == MainDelta(key)
        acts == /\ playerId # NULL /\ ws = "OPEN"
                /\ (d.dx # 0 \/ d.dy # 0)
        pos == [x |-> myPos.x + d.dx, y |-> myPos.y + d.dy]
    IN  IF ~acts
        THEN /\ last' = MainEv("keydown", FALSE, <<>>, myPos)
             /\ UNCHANGED <<playerId, players, avatars, camera, ws,
                            worldImageLoaded, held, keysPressed, isMoving,
                            told, myPos, gameOnlyVars>>
        ELSE /\ Near(pos.x, MainXs) /\ Near(pos.y, MainYs)
             /\ myPos' = pos
             /\ players' = IF playerId \in DOMAIN players
                           THEN [players EXCEPT ![playerId].x = pos.x,
                                                ![playerId].y = pos.y]
                           ELSE players
             /\ camera' = centerViewportOn(camera, pos, worldImageLoaded)
             /\ last' = MainEv("keydown", TRUE,
                               <<[type |-> "move", id |-> playerId,
                                  dx |-> d.dx, dy |-> d.dy]>>, myPos)
             /\ UNCHANGED <<playerId, avatars, ws, worldImageLoaded, held,
                            keysPressed, isMoving, told, gameOnlyVars>>

(***************************************************************************)
(* SpecMain: the client of main.js.  p1 is the local actor; the view takes *)
(* an even size, an odd size and one wider than the map.                   *)
(***************************************************************************)
MainPlayer(k, px) ==
    [id |-> k, x |-> px, y |-> 10, name |-> k, avatarUrl |-> NULL]
MainMessages ==
    {[type |-> "joined", id |-> "p1",
      you |-> [x |-> 100, y |-> 10, name |-> "Tim", avatarUrl |-> NULL],
      players |-> list] : list \in {<<>>, <<MainPlayer("p2", 100)>>}}
    \cup {[type |-> "state", players |-> list] :
             list \in {<<MainPlayer("p1", 2040)>>,
                       <<MainPlayer("p2", 2040), MainPlayer("p1", 100)>>,
                       <<MainPlayer("p2", 100)>>}}
    \cup {[type |-> "moved", id |-> k, x |-> px, y |-> 10] :
             k \in Ids, px \in MainXs}
    \cup {[type |-> "players", players |-> <<MainPlayer("p2", 100)>>],
          [type |-> "ping"]}
MainKeys == {"ArrowRight", "a", "ArrowDown", "q"}
MainSizes == {<<800, 600>>, <<801, 601>>, <<3000, 600>>}

NextMain ==
    \/ MainOnOpen
    \/ MainOnClose
    \/ \E msg \in MainMessages : MainOnMessage(msg)
    \/ \E size \in MainSizes : MainOnResize(size)
    \/ MainOnMapLoad
    \/ \E key \in MainKeys : MainOnKeyDown(key)
SpecMain == InitScript /\ [][NextMain]_vars

(***************************************************************************)
(* Properties of the client of main.js (checked under SpecMain).           *)
(***************************************************************************)
\* The viewport bound of the data model for the viewport and view size cam.
InMap(cam) ==
    /\ 0 <= cam.x /\ cam.x <= Max(0, mapImgWidth - cam.width)
    /\ 0 <= cam.y /\ cam.y <= Max(0, mapImgHeight - cam.height)

\* C39: after every execution of centerViewportOn the viewport lies in
\* [0, max(0, map - view)] on both axes, whatever the position and whatever
\* the order of the map image load and the server messages.
C39_ViewportInMapAfterCentering ==
    [][last'.centered => InMap(camera')]_vars

\* The position a moved or state message reports for the actor id.
Reported(msg, id) ==
    IF msg.type = "moved"
    THEN [x |-> msg.x, y |-> msg.y]
    ELSE [x |-> LastOf(msg.players, id).x, y |-> LastOf(msg.players, id).y]

\* msg is a moved or state message that carries the actor id.
Carries(msg, id) ==
    \/ msg.type = "moved" /\ msg.id = id
    \/ msg.type = "state" /\ id \in ListIds(msg.players)

\* C40: after a moved or state message that carries the local actor's id,
\* myPos is the position the server reported and so is the position in the
\* local actor's entry of players, whatever the key presses had made of
\* them; a state message also makes sure the entry exists.
C40_ServerPositionWins ==
    [][last'.op \in {"moved", "state"}
          => \A msg \in MainMessages :
                (Carries(msg, playerId) /\ MainOnMessage(msg))
                => /\ myPos' = Reported(msg, playerId)
                   /\ msg.type = "state" => playerId \in DOMAIN players'
                   /\ playerId \in DOMAIN players' =>
                         /\ players'[playerId].x = Reported(msg, playerId).x
                         /\ players'[playerId].y = Reported(msg, playerId).y]_vars

\* C40 witness: a moved message for the local actor put myPos and the entry
\* of p1 back to (100, 10) from the predicted (132, 26).
C40_Witness ==
    /\ last.op = "moved"
    /\ last.from = [x |-> 132, y |-> 26]
    /\ playerId = "p1"
    /\ myPos = [x |-> 100, y |-> 10]
    /\ "p1" \in DOMAIN players
    /\ players["p1"].x = 100 /\ players["p1"].y = 10

====
